---- MODULE Spec2Model ----
(***************************************************************************)
(* Data streams monitoring: the processor of                               *)
(* ddtrace/internal/datastreams/processor.py.                              *)
(*                                                                         *)
(*   Spec       recorder threads, the periodic exporter and shutdown()     *)
(*              around the bucket map and its lock                         *)
(*   SpecCodec  the pathway wire format and the carrier codec              *)
(*   SpecRecord recorder threads and the drain, with the calls made kept   *)
(*   SpecCheckpoint  set_checkpoint on one context, with the hash chain    *)
(*   SpecBackoff     the flush of shutdown() and the waits of its retries  *)
(*   SpecThreads     the current context of each thread                    *)
(*   SpecDirection   set_checkpoint with tags going out, in or nowhere     *)
(*   SpecOffsets     produce and commit offsets of either sign             *)
(*   SpecTags        edge tags of any text, recorded and serialized        *)
(*                                                                         *)
(* Times handed to the recorders are integers in nanoseconds; times of a   *)
(* pathway context are integers in units of 1/SubMs millisecond.  A string *)
(* is the sequence of its character codes.                                 *)
(***************************************************************************)
EXTENDS Integers, Sequences, FiniteSets, TLC

(***************************************************************************)
(* Bounds of the model                                                     *)
(***************************************************************************)
MaxRecords == 2
MaxTicks == 1
MaxCheckpoints == 3
MaxAttempts == 5
BucketSizeNs == 2
SubMs == 2

\* values of __init__'s retry_attempts: a single attempt, and the default
RetryAttemptsChoices == {1, 3}

Recorders == {"r1", "r2"}
Tickers == {"periodic", "shutdown"}
NoThread == "none"

VARIABLES
    retry_attempts,   \* __init__'s retry_attempts
    buckets,          \* self._buckets: bucket start -> Bucket
    lock,             \* holder of self._lock, or NoThread
    stopped,          \* the periodic service has been stopped
    rpc,              \* recorder thread -> position in its call
    rcall,            \* recorder thread -> arguments of its call
    rlocal,           \* recorder thread -> the value read under the lock
    tpc,              \* ticker -> position in periodic()
    snapshot,         \* ticker -> serialized_stats of its tick
    resps,            \* ticker -> responses of the send attempts of its tick
    outcome,          \* ticker -> how its last tick ended
    nrec,             \* history: number of recorder calls begun
    nticks,           \* history: number of ticks begun
    done,             \* history: ids of the recorder calls that returned
    drained,          \* history: ids of the recorder calls some tick has serialized
    predrain,         \* history: ticker -> the value of drained when its tick drained
    failed,           \* history: ids of the recorder calls whose payload was dropped
    ctx,              \* codec: the context at hand
    wire,             \* codec: the header value at hand
    carrier,          \* codec: the carrier map at hand
    result,           \* codec: outcome of the last decode
    current_context,  \* thread -> self._current_context.value as that thread sees it
    calls,            \* history: the recorder calls begun, in order, with their thread
    trail,            \* history: the checkpoints set on ctx, in order
    waits             \* ticker -> the waits slept between the send attempts of its tick

procVars == <<retry_attempts, buckets, lock, stopped, rpc, rcall, rlocal, tpc,
              snapshot, resps, outcome, nrec, nticks, done, drained, predrain, failed>>
codecVars == <<ctx, wire, carrier, result, current_context>>
chkVars == <<trail>>
retryVars == <<waits>>
vars == <<procVars, codecVars, calls, chkVars, retryVars>>

(***************************************************************************)
(* Maps (dict, defaultdict)                                                *)
(***************************************************************************)
EmptyMap == << >>

Put(m, k, v) == [x \in (DOMAIN m) \cup {k} |-> IF x = k THEN v ELSE m[x]]

GetDefault(m, k, d) == IF k \in DOMAIN m THEN m[k] ELSE d

Remove(m, ks) == [x \in (DOMAIN m) \ ks |-> m[x]]

(***************************************************************************)
(* Tags: a string is the sequence of its character codes                   *)
(***************************************************************************)
Comma == 44

\* "direction:"
DirectionPrefix == <<100, 105, 114, 101, 99, 116, 105, 111, 110, 58>>

\* "direction:in"
TagDirectionIn == DirectionPrefix \o <<105, 110>>

\* "direction:out"
TagDirectionOut == DirectionPrefix \o <<111, 117, 116>>

\* "topic:a"
TagTopic == <<116, 111, 112, 105, 99, 58, 97>>

\* "type:kafka"
TagType == <<116, 121, 112, 101, 58, 107, 97, 102, 107, 97>>

RECURSIVE Join(_)
Join(tags) ==
    IF tags = << >> THEN << >>
    ELSE IF Len(tags) = 1 THEN tags[1]
    ELSE tags[1] \o <<Comma>> \o Join(Tail(tags))

RECURSIVE SplitFrom(_, _)
SplitFrom(s, cur) ==
    IF s = << >> THEN <<cur>>
    ELSE IF s[1] = Comma THEN <<cur>> \o SplitFrom(Tail(s), << >>)
    ELSE SplitFrom(Tail(s), Append(cur, s[1]))

Split(s) == SplitFrom(s, << >>)

(***************************************************************************)
(* Statistics                                                              *)
(***************************************************************************)
NewSketch == [count |-> 0, sum |-> 0]

SketchAdd(s, v) == [count |-> s.count + 1, sum |-> s.sum + v]

NewSumCount == [sum |-> 0, count |-> 0]

SumCountAdd(s, v) == [sum |-> s.sum + v, count |-> s.count + 1]

NewPathwayStats ==
    [full_pathway_latency |-> NewSketch, edge_latency |-> NewSketch,
     payload_size |-> NewSumCount]

NewBucket ==
    [pathway_stats |-> EmptyMap, latest_produce_offsets |-> EmptyMap,
     latest_commit_offsets |-> EmptyMap, ids |-> {}]

\* the time itself, not the start of its window
BucketTimeUnaligned(now_ns) == now_ns

BucketTime(now_ns) == now_ns - (now_ns % BucketSizeNs)

\* the tags alone, without the two hashes
AggrKeyTagsOnly(call) == <<Join(call.tags), 0, 0>>

AggrKey(call) == <<Join(call.tags), call.hash, call.parent>>

\* the value given, whatever is stored
MaxLast(a, b) == a

Max(a, b) == IF a >= b THEN a ELSE b

(***************************************************************************)
(* Arguments of the recorder calls                                         *)
(***************************************************************************)
\* now_ns of a call: 1 falls into the bucket starting at 0, 2 starts the next
Times == {1, 2}

EdgeTagLists == { <<TagDirectionIn, TagTopic>> }

PayloadSizes == {2}

Offsets == {5}

PartitionKeys == { <<"t", 0>> }

ConsumerPartitionKeys == { <<"g", "t", 0>> }

NoCall ==
    [op |-> "none", id |-> 0, now_ns |-> 0, tags |-> << >>, hash |-> 0,
     parent |-> 0, edge |-> 0, full |-> 0, val |-> 0, key |-> << >>]

CheckpointCalls(id) ==
    { [NoCall EXCEPT !.op = "checkpoint", !.id = id, !.now_ns = t, !.tags = tg,
                     !.hash = 2, !.parent = 1, !.edge = 1, !.full = 1, !.val = sz] :
        t \in Times, tg \in EdgeTagLists, sz \in PayloadSizes }

ProduceCalls(id) ==
    { [NoCall EXCEPT !.op = "produce", !.id = id, !.now_ns = t, !.key = k, !.val = o] :
        t \in Times, k \in PartitionKeys, o \in Offsets }

CommitCalls(id) ==
    { [NoCall EXCEPT !.op = "commit", !.id = id, !.now_ns = t, !.key = k, !.val = o] :
        t \in Times, k \in ConsumerPartitionKeys, o \in Offsets }

NoLocal == [stats |-> NewPathwayStats, offset |-> 0]

(***************************************************************************)
(* The lock                                                                *)
(***************************************************************************)
\* a lock that excludes nobody
LockFreeAlways(l) == TRUE

LockFree(l) == l = NoThread

(***************************************************************************)
(* on_checkpoint_creation, track_kafka_produce, track_kafka_commit         *)
(***************************************************************************)
Bucket(bkts, bt) == GetDefault(bkts, bt, NewBucket)

\* self._buckets[bucket_time_ns].pathway_stats[aggr_key]: both defaultdicts
\* create the entry they are asked for
ReadStats(bkts, bt, key) == GetDefault(Bucket(bkts, bt).pathway_stats, key, NewPathwayStats)

TouchStats(bkts, bt, key) ==
    Put(bkts, bt, [Bucket(bkts, bt) EXCEPT
                      !.pathway_stats = Put(@, key, ReadStats(bkts, bt, key))])

AddSample(stats, call) ==
    [full_pathway_latency |-> SketchAdd(stats.full_pathway_latency, call.full),
     edge_latency |-> SketchAdd(stats.edge_latency, call.edge),
     payload_size |-> SumCountAdd(stats.payload_size, call.val)]

StoreStats(bkts, bt, key, stats, id) ==
    Put(bkts, bt, [Bucket(bkts, bt) EXCEPT
                      !.pathway_stats = Put(@, key, stats),
                      !.ids = @ \cup {id}])

ReadProduce(bkts, bt, key) == GetDefault(Bucket(bkts, bt).latest_produce_offsets, key, 0)

TouchProduce(bkts, bt, key) ==
    Put(bkts, bt, [Bucket(bkts, bt) EXCEPT
                      !.latest_produce_offsets = Put(@, key, ReadProduce(bkts, bt, key))])

StoreProduce(bkts, bt, key, offset, id) ==
    Put(bkts, bt, [Bucket(bkts, bt) EXCEPT
                      !.latest_produce_offsets = Put(@, key, offset),
                      !.ids = @ \cup {id}])

ReadCommit(bkts, bt, key) == GetDefault(Bucket(bkts, bt).latest_commit_offsets, key, 0)

TouchCommit(bkts, bt, key) ==
    Put(bkts, bt, [Bucket(bkts, bt) EXCEPT
                      !.latest_commit_offsets = Put(@, key, ReadCommit(bkts, bt, key))])

StoreCommit(bkts, bt, key, offset, id) ==
    Put(bkts, bt, [Bucket(bkts, bt) EXCEPT
                      !.latest_commit_offsets = Put(@, key, offset),
                      !.ids = @ \cup {id}])

\* A recorder thread calls one of the three recording methods, with the
\* arguments of one of calls, and enters its "with self._lock" block.
RecAcquireFrom(t, callset) ==
    /\ rpc[t] = "idle"
    /\ nrec < MaxRecords
    /\ LockFree(lock)
    /\ \E call \in callset : rcall' = [rcall EXCEPT ![t] = call]
    /\ nrec' = nrec + 1
    /\ lock' = t
    /\ rpc' = [rpc EXCEPT ![t] = "locked"]
    /\ UNCHANGED <<retry_attempts, buckets, stopped, rlocal, tpc, snapshot,
                   resps, outcome, nticks, done, drained, predrain, failed, codecVars,
                   chkVars, retryVars>>

RecAcquire(t) ==
    /\ RecAcquireFrom(t, CheckpointCalls(nrec + 1) \cup ProduceCalls(nrec + 1)
                             \cup CommitCalls(nrec + 1))
    /\ UNCHANGED calls

\* The lookups of the statement: the bucket and its entry are created on
\* first use, and the current value is read.
RecRead(t) ==
    /\ rpc[t] = "locked"
    /\ LET call == rcall[t]
           bt == BucketTime(call.now_ns)
       IN  \/ /\ call.op = "checkpoint"
              /\ rlocal' = [rlocal EXCEPT ![t].stats = ReadStats(buckets, bt, AggrKey(call))]
              /\ buckets' = TouchStats(buckets, bt, AggrKey(call))
           \/ /\ call.op = "produce"
              /\ rlocal' = [rlocal EXCEPT ![t].offset =
                                Max(call.val, ReadProduce(buckets, bt, call.key))]
              /\ buckets' = TouchProduce(buckets, bt, call.key)
           \/ /\ call.op = "commit"
              /\ rlocal' = [rlocal EXCEPT ![t].offset =
                                Max(call.val, ReadCommit(buckets, bt, call.key))]
              /\ buckets' = TouchCommit(buckets, bt, call.key)
    /\ rpc' = [rpc EXCEPT ![t] = "read"]
    /\ UNCHANGED <<retry_attempts, lock, stopped, rcall, tpc, snapshot,
                   resps, outcome, nrec, nticks, done, drained, predrain, failed, codecVars, calls, chkVars, retryVars>>

\* The update is stored, the lock is released and the call returns.
RecWrite(t) ==
    /\ rpc[t] = "read"
    /\ LET call == rcall[t]
           bt == BucketTime(call.now_ns)
       IN  \/ /\ call.op = "checkpoint"
              /\ buckets' = StoreStats(buckets, bt, AggrKey(call),
                                       AddSample(rlocal[t].stats, call), call.id)
           \/ /\ call.op = "produce"
              /\ buckets' = StoreProduce(buckets, bt, call.key, rlocal[t].offset, call.id)
           \/ /\ call.op = "commit"
              /\ buckets' = StoreCommit(buckets, bt, call.key, rlocal[t].offset, call.id)
    /\ lock' = IF lock = t THEN NoThread ELSE lock
    /\ done' = done \cup {rcall[t].id}
    /\ rpc' = [rpc EXCEPT ![t] = "idle"]
    /\ rlocal' = [rlocal EXCEPT ![t] = NoLocal]
    /\ rcall' = [rcall EXCEPT ![t] = NoCall]
    /\ UNCHANGED <<retry_attempts, stopped, tpc, snapshot,
                   resps, outcome, nrec, nticks, drained, predrain, failed, codecVars, calls, chkVars, retryVars>>

(***************************************************************************)
(* _serialize_buckets                                                      *)
(***************************************************************************)
DecimalStr(n) == CASE n = 0 -> "0" [] n = 1 -> "1" [] OTHER -> "n"

SerializeStats(key, stats) ==
    [EdgeTags |-> Split(key[1]), Hash |-> key[2], ParentHash |-> key[3],
     PathwayLatency |-> stats.full_pathway_latency,
     EdgeLatency |-> stats.edge_latency]

CommitBacklog(key, offset) ==
    [Tags |-> <<"type:kafka_commit", <<"consumer_group:", key[1]>>,
                <<"topic:", key[2]>>, <<"partition:", DecimalStr(key[3])>> >>,
     Value |-> offset]

\* a produce offset reported under the tags of a commit
ProduceBacklogAsCommit(key, offset) ==
    [Tags |-> <<"type:kafka_commit", <<"topic:", key[1]>>,
                <<"partition:", DecimalStr(key[2])>> >>,
     Value |-> offset]

ProduceBacklog(key, offset) ==
    [Tags |-> <<"type:kafka_produce", <<"topic:", key[1]>>,
                <<"partition:", DecimalStr(key[2])>> >>,
     Value |-> offset]

SerializeBucket(bt, b) ==
    [Start |-> bt,
     Duration |-> BucketSizeNs,
     Stats |-> { SerializeStats(k, b.pathway_stats[k]) : k \in DOMAIN b.pathway_stats },
     Backlogs |->
        { CommitBacklog(k, b.latest_commit_offsets[k]) : k \in DOMAIN b.latest_commit_offsets }
        \cup
        { ProduceBacklog(k, b.latest_produce_offsets[k]) : k \in DOMAIN b.latest_produce_offsets },
     ids |-> b.ids]

\* the list the method returns, as a set: one entry per bucket of the map
SerializedBuckets(bkts) == { SerializeBucket(bt, bkts[bt]) : bt \in DOMAIN bkts }

\* the serialized buckets are left in the map
ClearSerializedNone(bkts, keys) == bkts

\* "Clear out buckets that have been serialized"
ClearSerialized(bkts, keys) == Remove(bkts, keys)

IdsOf(serialized) == UNION { sb.ids : sb \in serialized }

IdsIn(bkts) == UNION { bkts[bt].ids : bt \in DOMAIN bkts }

(***************************************************************************)
(* _flush_stats and its retry wrapper                                      *)
(***************************************************************************)
TransportError == [exc |-> TRUE, status |-> 0]

Statuses == {200, 404, 500}

Responses == {TransportError} \cup { [exc |-> FALSE, status |-> st] : st \in Statuses }

\* the exception of the transport is swallowed
FlushStatsSwallow(resp) ==
    IF resp.exc THEN [out |-> "return", log |-> "debug:failed to submit"]
    ELSE IF resp.status = 404 THEN [out |-> "return", log |-> "error:agent does not support"]
    ELSE IF resp.status >= 400 THEN [out |-> "return", log |-> "error:failed to send"]
    ELSE [out |-> "return", log |-> "debug:sent"]

\* an error status other than 404 raises
FlushStatsRaiseOnError(resp) ==
    IF resp.exc THEN [out |-> "raise", log |-> "debug:failed to submit"]
    ELSE IF resp.status = 404 THEN [out |-> "return", log |-> "error:agent does not support"]
    ELSE IF resp.status >= 400 THEN [out |-> "raise", log |-> "error:failed to send"]
    ELSE [out |-> "return", log |-> "debug:sent"]

\* status 404 raises
FlushStatsRaiseOn404(resp) ==
    IF resp.exc THEN [out |-> "raise", log |-> "debug:failed to submit"]
    ELSE IF resp.status = 404 THEN [out |-> "raise", log |-> "error:agent does not support"]
    ELSE IF resp.status >= 400 THEN [out |-> "return", log |-> "error:failed to send"]
    ELSE [out |-> "return", log |-> "debug:sent"]

\* What one call of _flush_stats does with the response of the agent:
\* it raises, or it returns None after logging.
FlushStats(resp) ==
    IF resp.exc THEN [out |-> "raise", log |-> "debug:failed to submit"]
    ELSE IF resp.status = 404 THEN [out |-> "return", log |-> "error:agent does not support"]
    ELSE IF resp.status >= 400 THEN [out |-> "return", log |-> "error:failed to send"]
    ELSE [out |-> "return", log |-> "debug:sent"]

\* fibonacci_backoff_with_jitter(attempts)(f) after the n-th call of f: a call
\* that returned ends the loop, a call that raised is repeated after a wait
\* while attempts are left, and the last exception is raised after that.
RetryWrapped(out, n, attempts) ==
    IF out = "return" THEN "return"
    ELSE IF n < attempts THEN "retry"
    ELSE "raise"

\* the exception of the wrapper is not caught
PeriodicExceptNone(wrapped) == IF wrapped = "raise" THEN "propagated" ELSE "ok"

\* try: self._flush_stats_with_backoff(compressed) / except Exception: log.error
PeriodicExcept(wrapped) == IF wrapped = "raise" THEN "logged" ELSE "ok"

Delivered(resp) == ~resp.exc /\ resp.status < 400

(***************************************************************************)
(* The waits of the retry wrapper.  Durations are integers in units of     *)
(* 10 microseconds; 0.618 and 1.618 are 618 / 1000 and 1618 / 1000.        *)
(***************************************************************************)
\* self.interval: 10.0 seconds
Interval == 1000000

\* x / 1.618 ** n
RECURSIVE DivPhi(_, _)
DivPhi(x, n) == IF n = 0 THEN x ELSE DivPhi((x * 1000) \div 1618, n - 1)

\* x * 1.618 ** n
RECURSIVE MulPhi(_, _)
MulPhi(x, n) == IF n = 0 THEN x ELSE MulPhi((x * 1618) \div 1000, n - 1)

\* 0.618 * interval / 2, not divided by 1.618 ** attempts
InitialWaitUnscaled(attempts) == ((Interval \div 1000) * 618) \div 2

\* initial_wait = 0.618 * self.interval / (1.618**retry_attempts) / 2
InitialWait(attempts) == DivPhi((Interval \div 1000) * 618, attempts) \div 2

\* the upper end of the wait after the n-th failed attempt:
\* initial_wait * 1.618 ** (n - 1)
WaitLimit(attempts, n) == MulPhi(InitialWait(attempts), n - 1)

\* random.uniform(0, limit): none of it, half of it, all of it
Jitters(limit) == {0, limit \div 2, limit}

RECURSIVE SumSeq(_)
SumSeq(s) == IF s = << >> THEN 0 ELSE s[1] + SumSeq(Tail(s))


TickEnd(k) == IF k = "shutdown" THEN "stop" ELSE "idle"

(***************************************************************************)
(* periodic                                                                *)
(***************************************************************************)
\* periodic() without its "with self._lock"
TickAcquireNoLock(k) ==
    /\ tpc[k] = "idle"
    /\ k = "periodic" => (~stopped /\ nticks < MaxTicks)
    /\ nticks' = IF k = "periodic" THEN nticks + 1 ELSE nticks
    /\ tpc' = [tpc EXCEPT ![k] = "locked"]
    /\ UNCHANGED <<retry_attempts, buckets, lock, stopped, rpc, rcall, rlocal, snapshot,
                   resps, outcome, nrec, done, drained, predrain, failed, codecVars, calls, chkVars, retryVars>>

\* The timer of the periodic thread fires, or shutdown() calls periodic():
\* the tick enters its "with self._lock" block.
TickAcquire(k) ==
    /\ tpc[k] = "idle"
    /\ k = "periodic" => (~stopped /\ nticks < MaxTicks)
    /\ LockFree(lock)
    /\ nticks' = IF k = "periodic" THEN nticks + 1 ELSE nticks
    /\ lock' = k
    /\ tpc' = [tpc EXCEPT ![k] = "locked"]
    /\ UNCHANGED <<retry_attempts, buckets, stopped, rpc, rcall, rlocal, snapshot,
                   resps, outcome, nrec, done, drained, predrain, failed, codecVars, calls, chkVars, retryVars>>

\* serialized_stats = self._serialize_buckets()
TickSerialize(k) ==
    /\ tpc[k] = "locked"
    /\ snapshot' = [snapshot EXCEPT ![k] = SerializedBuckets(buckets)]
    /\ buckets' = ClearSerialized(buckets, DOMAIN buckets)
    /\ drained' = drained \cup IdsIn(buckets)
    /\ predrain' = [predrain EXCEPT ![k] = drained]
    /\ tpc' = [tpc EXCEPT ![k] = "serialized"]
    /\ UNCHANGED <<retry_attempts, lock, stopped, rpc, rcall, rlocal,
                   resps, outcome, nrec, nticks, done, failed, codecVars, calls, chkVars, retryVars>>

\* the rest of periodic() inside the "with self._lock" block
TickReleaseKeepLock(k) ==
    /\ tpc[k] = "serialized"
    /\ IF snapshot[k] = {}
       THEN /\ tpc' = [tpc EXCEPT ![k] = "return"]
            /\ outcome' = [outcome EXCEPT ![k] = "skipped"]
       ELSE /\ tpc' = [tpc EXCEPT ![k] = "send"]
            /\ UNCHANGED outcome
    /\ UNCHANGED <<retry_attempts, buckets, lock, stopped, rpc, rcall, rlocal, snapshot,
                   resps, nrec, nticks, done, drained, predrain, failed, codecVars, calls, chkVars, retryVars>>

\* periodic() without its "if not serialized_stats: return"
TickReleaseSendAlways(k) ==
    /\ tpc[k] = "serialized"
    /\ lock' = IF lock = k THEN NoThread ELSE lock
    /\ tpc' = [tpc EXCEPT ![k] = "send"]
    /\ UNCHANGED <<retry_attempts, buckets, stopped, rpc, rcall, rlocal, snapshot, outcome,
                   resps, nrec, nticks, done, drained, predrain, failed, codecVars, calls, chkVars, retryVars>>

\* The lock is released; an empty list ends the tick, anything else is packed,
\* compressed and handed to the sender.
TickRelease(k) ==
    /\ tpc[k] = "serialized"
    /\ lock' = IF lock = k THEN NoThread ELSE lock
    /\ IF snapshot[k] = {}
       THEN /\ tpc' = [tpc EXCEPT ![k] = "return"]
            /\ outcome' = [outcome EXCEPT ![k] = "skipped"]
       ELSE /\ tpc' = [tpc EXCEPT ![k] = "send"]
            /\ UNCHANGED outcome
    /\ UNCHANGED <<retry_attempts, buckets, stopped, rpc, rcall, rlocal, snapshot,
                   resps, nrec, nticks, done, drained, predrain, failed, codecVars, calls, chkVars, retryVars>>

\* One call of _flush_stats by the retry wrapper, and what follows from it.
SendAttempt(k) ==
    /\ tpc[k] = "send"
    /\ \E resp \in Responses :
         LET wrapped == RetryWrapped(FlushStats(resp).out, Len(resps[k]) + 1, retry_attempts)
         IN  /\ resps' = [resps EXCEPT ![k] = Append(@, resp)]
             /\ \/ /\ wrapped = "retry"
                   /\ tpc' = [tpc EXCEPT ![k] = "backoff"]
                   /\ UNCHANGED <<outcome, failed>>
                \/ /\ wrapped = "return"
                   /\ tpc' = [tpc EXCEPT ![k] = "return"]
                   /\ outcome' = [outcome EXCEPT ![k] =
                                     IF Delivered(resp) THEN "delivered" ELSE "dropped"]
                   /\ failed' = IF Delivered(resp) THEN failed
                                ELSE failed \cup IdsOf(snapshot[k])
                \/ /\ wrapped = "raise"
                   /\ tpc' = [tpc EXCEPT ![k] =
                                 IF PeriodicExcept(wrapped) = "logged" THEN "return" ELSE "raised"]
                   /\ outcome' = [outcome EXCEPT ![k] = "dropped"]
                   /\ failed' = failed \cup IdsOf(snapshot[k])
    /\ UNCHANGED <<retry_attempts, buckets, lock, stopped, rpc, rcall, rlocal, snapshot,
                   nrec, nticks, done, drained, predrain, codecVars, calls, chkVars, retryVars>>

\* The wait between two attempts is over, however long it was.
BackoffEnd(k) ==
    /\ tpc[k] = "backoff"
    /\ tpc' = [tpc EXCEPT ![k] = "send"]
    /\ UNCHANGED <<retry_attempts, buckets, lock, stopped, rpc, rcall, rlocal, snapshot,
                   resps, outcome, nrec, nticks, done, drained, predrain, failed, codecVars, calls, chkVars>>

BackoffDone(k) ==
    /\ BackoffEnd(k)
    /\ UNCHANGED retryVars

\* The wait between two attempts, with its length: the n-th wait of the
\* tick follows its n-th attempt.
BackoffWait(k) ==
    /\ BackoffEnd(k)
    /\ \E w \in Jitters(WaitLimit(retry_attempts, Len(resps[k]))) :
          waits' = [waits EXCEPT ![k] = Append(@, w)]

\* periodic() returns to its caller: the timer loop, or shutdown().
TickReturn(k) ==
    /\ tpc[k] = "return"
    /\ tpc' = [tpc EXCEPT ![k] = TickEnd(k)]
    /\ snapshot' = [snapshot EXCEPT ![k] = {}]
    /\ resps' = [resps EXCEPT ![k] = << >>]
    /\ outcome' = [outcome EXCEPT ![k] = "none"]
    /\ predrain' = [predrain EXCEPT ![k] = {}]
    /\ UNCHANGED <<retry_attempts, buckets, lock, stopped, rpc, rcall, rlocal,
                   nrec, nticks, done, drained, failed, codecVars, calls, chkVars, retryVars>>

\* shutdown() returns and the periodic thread is left running
ShutdownStopKeepRunning ==
    /\ tpc["shutdown"] = "stop"
    /\ tpc' = [tpc EXCEPT !["shutdown"] = "stopped"]
    /\ UNCHANGED <<retry_attempts, buckets, lock, stopped, rpc, rcall, rlocal, snapshot,
                   resps, outcome, nrec, nticks, done, drained, predrain, failed, codecVars, calls, chkVars, retryVars>>

\* shutdown() as self.stop(timeout) alone, with no periodic() before it
ShutdownStopAtOnce ==
    /\ tpc["shutdown"] = "idle"
    /\ stopped' = TRUE
    /\ tpc' = [tpc EXCEPT !["shutdown"] = "stopped"]
    /\ UNCHANGED <<retry_attempts, buckets, lock, rpc, rcall, rlocal, snapshot,
                   resps, outcome, nrec, nticks, done, drained, predrain, failed, codecVars, calls, chkVars, retryVars>>

\* shutdown(): self.stop(timeout) after its own periodic() has returned
ShutdownStop ==
    /\ tpc["shutdown"] = "stop"
    /\ stopped' = TRUE
    /\ tpc' = [tpc EXCEPT !["shutdown"] = "stopped"]
    /\ UNCHANGED <<retry_attempts, buckets, lock, rpc, rcall, rlocal, snapshot,
                   resps, outcome, nrec, nticks, done, drained, predrain, failed, codecVars, calls, chkVars, retryVars>>

(***************************************************************************)
(* Pathway contexts and header values                                      *)
(***************************************************************************)
\* DataStreamsCtx.__init__
DataStreamsCtx(hash_value, pathway_start_sec, current_edge_start_sec) ==
    [hash |-> hash_value,
     pathway_start_sec |-> pathway_start_sec,
     current_edge_start_sec |-> current_edge_start_sec,
     previous_direction |-> << >>,
     closest_opposite_direction_hash |-> 0,
     closest_opposite_direction_edge_start |-> current_edge_start_sec]

\* new_pathway, at wall-clock time now
NewPathway(now) == DataStreamsCtx(0, now, now)

\* a Python value held by a header: bytes, str, None or an int
PyNone == [type |-> "none", data |-> << >>]

PyBytes(b) == [type |-> "bytes", data |-> b]

PyStr(s) == [type |-> "str", data |-> s]

PyInt(n) == [type |-> "int", data |-> <<n>>]

NoCtx == DataStreamsCtx(0, 0, 0)

\* self._current_context: a thread-local that has no value until a decode or
\* a checkpoint gives it one
Unset == [set |-> FALSE, value |-> NoCtx]

\* the thread the codec is called on
CodecThread == "r1"

\* one attribute shared by all threads
SlotShared(t) == CodecThread

\* threading.local(): the attributes thread t sees are its own
Slot(t) == t

\* self._current_context.value on thread t
Cur(t) == current_context[Slot(t)]

\* self._current_context.value = v on thread t
SetCur(t, v) == [current_context EXCEPT ![Slot(t)] = v]

PROPAGATION_KEY == "dd-pathway-ctx"

PROPAGATION_KEY_BASE_64 == "dd-pathway-ctx-base64"

OtherKey == "traceparent"

NoResult == [op |-> "none", raised |-> "", ctx |-> NoCtx, now |-> 0, before |-> EmptyMap]

(***************************************************************************)
(* struct.pack("<Q"), the varint and base64                                 *)
(***************************************************************************)
HashBytes == 8

RECURSIVE PackLE(_, _)
PackLE(v, n) == IF n = 0 THEN << >> ELSE <<v % 256>> \o PackLE(v \div 256, n - 1)

RECURSIVE UnpackLE(_)
UnpackLE(b) == IF b = << >> THEN 0 ELSE b[1] + 256 * UnpackLE(Tail(b))

\* base-128 digits, least significant first, the high bit of a byte saying
\* that another byte follows
RECURSIVE EncodeVarInt(_)
EncodeVarInt(v) ==
    IF v < 128 THEN <<v>> ELSE <<(v % 128) + 128>> \o EncodeVarInt(v \div 128)

RECURSIVE DecodeVarInt(_)
DecodeVarInt(b) ==
    IF b = << >> THEN [ok |-> FALSE, value |-> 0, rest |-> << >>]
    ELSE IF b[1] < 128 THEN [ok |-> TRUE, value |-> b[1], rest |-> Tail(b)]
    ELSE LET r == DecodeVarInt(Tail(b))
         IN  [ok |-> r.ok, value |-> (b[1] - 128) + 128 * r.value, rest |-> r.rest]

\* the ASCII code of the i-th character of the base64 alphabet
B64Char(i) ==
    IF i < 26 THEN 65 + i
    ELSE IF i < 52 THEN 97 + (i - 26)
    ELSE IF i < 62 THEN 48 + (i - 52)
    ELSE IF i = 62 THEN 43
    ELSE 47

\* its inverse; 64 for a character outside the alphabet
B64Index(c) ==
    IF c >= 65 /\ c <= 90 THEN c - 65
    ELSE IF c >= 97 /\ c <= 122 THEN c - 97 + 26
    ELSE IF c >= 48 /\ c <= 57 THEN c - 48 + 52
    ELSE IF c = 43 THEN 62
    ELSE IF c = 47 THEN 63
    ELSE 64

B64Pad == 61

\* base64.b64encode
RECURSIVE B64Encode(_)
B64Encode(b) ==
    IF b = << >> THEN << >>
    ELSE IF Len(b) = 1 THEN
        <<B64Char(b[1] \div 4), B64Char((b[1] % 4) * 16), B64Pad, B64Pad>>
    ELSE IF Len(b) = 2 THEN
        <<B64Char(b[1] \div 4), B64Char((b[1] % 4) * 16 + (b[2] \div 16)),
          B64Char((b[2] % 16) * 4), B64Pad>>
    ELSE
        <<B64Char(b[1] \div 4), B64Char((b[1] % 4) * 16 + (b[2] \div 16)),
          B64Char((b[2] % 16) * 4 + (b[3] \div 64)), B64Char(b[3] % 64)>>
        \o B64Encode(SubSeq(b, 4, Len(b)))

\* base64.b64decode without validation: characters outside the alphabet are
\* skipped, padding that completes a group ends the data, and data that stops
\* inside a group is an error
RECURSIVE B64Scan(_, _, _, _, _)
B64Scan(s, quad, pads, left, out) ==
    IF s = << >> THEN [ok |-> quad = 0, bytes |-> out]
    ELSE IF s[1] = B64Pad THEN
        IF quad >= 2 /\ quad + pads + 1 >= 4 THEN [ok |-> TRUE, bytes |-> out]
        ELSE B64Scan(Tail(s), quad, pads + 1, left, out)
    ELSE IF B64Index(s[1]) = 64 THEN B64Scan(Tail(s), quad, pads, left, out)
    ELSE LET c == B64Index(s[1])
         IN  IF quad = 0 THEN B64Scan(Tail(s), 1, 0, c, out)
             ELSE IF quad = 1 THEN
                 B64Scan(Tail(s), 2, 0, c % 16, Append(out, left * 4 + (c \div 16)))
             ELSE IF quad = 2 THEN
                 B64Scan(Tail(s), 3, 0, c % 4, Append(out, left * 16 + (c \div 4)))
             ELSE B64Scan(Tail(s), 0, 0, 0, Append(out, left * 64 + c))

B64Decode(s) == B64Scan(s, 0, 0, 0, << >>)

\* str.encode("utf-8") and bytes.decode("utf-8") on code points below 0x800
RECURSIVE Utf8(_)
Utf8(s) ==
    IF s = << >> THEN << >>
    ELSE IF s[1] < 128 THEN <<s[1]>> \o Utf8(Tail(s))
    ELSE <<192 + (s[1] \div 64), 128 + (s[1] % 64)>> \o Utf8(Tail(s))

(***************************************************************************)
(* DataStreamsCtx.encode / encode_b64                                      *)
(***************************************************************************)
\* int(sec * 1e3)
ToMs(sec) == sec \div SubMs

\* float(ms) / 1e3
FromMs(ms) == ms * SubMs

\* the two start times are written in the other order
CtxEncodeEdgeFirst(c) ==
    PackLE(c.hash, HashBytes)
        \o EncodeVarInt(ToMs(c.current_edge_start_sec))
        \o EncodeVarInt(ToMs(c.pathway_start_sec))

CtxEncode(c) ==
    PackLE(c.hash, HashBytes)
        \o EncodeVarInt(ToMs(c.pathway_start_sec))
        \o EncodeVarInt(ToMs(c.current_edge_start_sec))

CtxEncodeB64(c) == B64Encode(CtxEncode(c))

(***************************************************************************)
(* decode_pathway / decode_pathway_b64                                     *)
(***************************************************************************)
Parsed(c) == [exc |-> "", ctx |-> c]

Raises(e) == [exc |-> e, ctx |-> NoCtx]

\* the body of decode_pathway's try
ParsePathway(data) ==
    IF data.type # "bytes" THEN Raises("TypeError")
    ELSE IF Len(data.data) < HashBytes THEN Raises("struct.error")
    ELSE LET hash_value == UnpackLE(SubSeq(data.data, 1, HashBytes))
             pathway == DecodeVarInt(SubSeq(data.data, HashBytes + 1, Len(data.data)))
         IN  IF ~pathway.ok THEN Raises("EOFError")
             ELSE LET edge == DecodeVarInt(pathway.rest)
                  IN  IF ~edge.ok THEN Raises("EOFError")
                      ELSE Parsed(DataStreamsCtx(hash_value, FromMs(pathway.value),
                                                 FromMs(edge.value)))

\* except (EOFError, TypeError)
Caught(exc) == exc \in {"EOFError", "TypeError"}

Returned(c, cur) == [raised |-> "", ctx |-> c, cur |-> cur]

Raised(e, cur) == [raised |-> e, ctx |-> NoCtx, cur |-> cur]

DecodePathway(data, now, cur) ==
    LET p == ParsePathway(data)
    IN  IF p.exc = "" THEN Returned(p.ctx, [set |-> TRUE, value |-> p.ctx])
        ELSE IF Caught(p.exc) THEN Returned(NewPathway(now), cur)
        ELSE Raised(p.exc, cur)

\* not data
Falsy(data) ==
    \/ data.type = "none"
    \/ data.type \in {"bytes", "str"} /\ data.data = << >>
    \/ data.type = "int" /\ data.data = <<0>>

DecodePathwayB64(data, now, cur) ==
    IF Falsy(data) THEN Returned(NewPathway(now), cur)
    ELSE LET binary_pathway == IF data.type = "str" THEN PyBytes(Utf8(data.data)) ELSE data
         IN  IF binary_pathway.type # "bytes" THEN Raised("TypeError", cur)
             ELSE LET encoded_pathway == B64Decode(binary_pathway.data)
                  IN  IF ~encoded_pathway.ok THEN Raised("binascii.Error", cur)
                      ELSE DecodePathway(PyBytes(encoded_pathway.bytes), now, cur)

(***************************************************************************)
(* DsmPathwayCodec                                                         *)
(***************************************************************************)
\* the context is written whatever its hash
CodecEncodeAlways(c, carr) == Put(carr, PROPAGATION_KEY_BASE_64, PyStr(CtxEncodeB64(c)))

\* the context is written under the legacy key, as raw bytes
CodecEncodeLegacy(c, carr) ==
    IF c.hash = 0 THEN carr
    ELSE Put(carr, PROPAGATION_KEY, PyBytes(CtxEncode(c)))

CodecEncode(c, carr) ==
    IF c.hash = 0 THEN carr
    ELSE Put(carr, PROPAGATION_KEY_BASE_64, PyStr(CtxEncodeB64(c)))

CodecDecode(carr, now, cur) ==
    IF carr = EmptyMap THEN Returned(NewPathway(now), cur)
    ELSE IF PROPAGATION_KEY_BASE_64 \in DOMAIN carr THEN
        DecodePathwayB64(carr[PROPAGATION_KEY_BASE_64], now, cur)
    ELSE IF PROPAGATION_KEY \in DOMAIN carr THEN
        LET v1 == DecodePathway(carr[PROPAGATION_KEY], now, cur)
        IN  IF v1.raised # "" THEN v1
            ELSE IF v1.ctx.hash = 0 THEN
                LET v2 == DecodePathwayB64(carr[PROPAGATION_KEY], now, v1.cur)
                IN  IF v2.raised # "" THEN Returned(NewPathway(now), v2.cur) ELSE v2
            ELSE v1
    ELSE Returned(NewPathway(now), cur)

(***************************************************************************)
(* DataStreamsCtx._compute_hash                                            *)
(***************************************************************************)
\* the hash is kept to its low 16 bits: the offset basis 0x...2325 and the
\* prime 0x...01b3 of FNV-1 64, cut to that width
HashMod == 65536

FnvOffsetBasis == 8997

FnvPrime == 435

\* bit k of a
Bit(a, k) == (a \div (2 ^ k)) % 2

\* a xor b, b being a byte
Xor(a, b) ==
    (a \div 256) * 256
        + (((Bit(a, 0) + Bit(b, 0)) % 2)
        + (((Bit(a, 1) + Bit(b, 1)) % 2) * 2
        + (((Bit(a, 2) + Bit(b, 2)) % 2) * 4
        + (((Bit(a, 3) + Bit(b, 3)) % 2) * 8
        + (((Bit(a, 4) + Bit(b, 4)) % 2) * 16
        + (((Bit(a, 5) + Bit(b, 5)) % 2) * 32
        + (((Bit(a, 6) + Bit(b, 6)) % 2) * 64
        + ((Bit(a, 7) + Bit(b, 7)) % 2) * 128)))))))

\* one round of FNV-1: multiply by the prime, then xor the byte in
FnvStep(h, byte) == Xor((h * FnvPrime) % HashMod, byte)

\* the FNV-1 loop over bytes; st is <<bytes already hashed, hash so far>>
RECURSIVE Fnv1From(_, _)
Fnv1From(st, bytes) ==
    IF st[1] = Len(bytes) THEN st[2]
    ELSE Fnv1From(<<st[1] + 1, FnvStep(st[2], bytes[st[1] + 1])>>, bytes)

Fnv1(bytes) == Fnv1From(<<0, FnvOffsetBasis>>, bytes)

\* self.service ("svc") and self.env ("none", config.env being unset)
Service == <<115, 118, 99>>

Env == <<110, 111, 110, 101>>

RECURSIVE TagBytes(_)
TagBytes(tags) == IF tags = << >> THEN << >> ELSE Utf8(tags[1]) \o TagBytes(Tail(tags))

\* the hash of the node alone: the parent hash is left out
ComputeHashNoParent(tags, parent_hash) ==
    LET node_hash == Fnv1(Utf8(Service) \o Utf8(Env) \o TagBytes(tags))
    IN  Fnv1(PackLE(node_hash, HashBytes))

ComputeHash(tags, parent_hash) ==
    LET node_hash == Fnv1(Utf8(Service) \o Utf8(Env) \o TagBytes(tags))
    IN  Fnv1(PackLE(node_hash, HashBytes) \o PackLE(parent_hash, HashBytes))

(***************************************************************************)
(* DataStreamsCtx.set_checkpoint                                           *)
(***************************************************************************)
\* a < b for strings
RECURSIVE StrLess(_, _)
StrLess(a, b) ==
    IF b = << >> THEN FALSE
    ELSE IF a = << >> THEN TRUE
    ELSE IF a[1] # b[1] THEN a[1] < b[1]
    ELSE StrLess(Tail(a), Tail(b))

RECURSIVE InsertSorted(_, _)
InsertSorted(t, tags) ==
    IF tags = << >> THEN <<t>>
    ELSE IF StrLess(t, tags[1]) THEN <<t>> \o tags
    ELSE <<tags[1]>> \o InsertSorted(t, Tail(tags))

\* the tags as given
SortedNone(tags) == tags

\* sorted(tags)
RECURSIVE Sorted(_)
Sorted(tags) ==
    IF tags = << >> THEN << >>
    ELSE InsertSorted(tags[Len(tags)], Sorted(SubSeq(tags, 1, Len(tags) - 1)))

\* t.startswith(p)
StartsWith(t, p) == Len(t) >= Len(p) /\ SubSeq(t, 1, Len(p)) = p

\* no tag is taken for the direction
DirectionNone(tags) == << >>

\* the first tag that starts with "direction:", or ""
RECURSIVE Direction(_)
Direction(tags) ==
    IF tags = << >> THEN << >>
    ELSE IF StartsWith(tags[1], DirectionPrefix) THEN tags[1]
    ELSE Direction(Tail(tags))

\* the hash is reused, the start times are not reset
ReuseKeepStart(c, now_sec) ==
    [c EXCEPT !.hash = c.closest_opposite_direction_hash,
              !.current_edge_start_sec =
                  IF c.closest_opposite_direction_hash = 0 THEN @
                  ELSE c.closest_opposite_direction_edge_start]

\* the same direction again changes nothing: the hash goes on from the last one
ReuseNone(c, now_sec) == c

\* direction == self.previous_direction
Reuse(c, now_sec) ==
    IF c.closest_opposite_direction_hash = 0
    THEN [c EXCEPT !.hash = 0,
                   !.current_edge_start_sec = now_sec,
                   !.pathway_start_sec = now_sec]
    ELSE [c EXCEPT !.hash = c.closest_opposite_direction_hash,
                   !.current_edge_start_sec = c.closest_opposite_direction_edge_start]

\* the direction changed
Turn(c, direction, now_sec) ==
    [c EXCEPT !.previous_direction = direction,
              !.closest_opposite_direction_hash = c.hash,
              !.closest_opposite_direction_edge_start = now_sec]

\* an override that is None or 0 is not applied
Override(c, edge_start_sec_override, pathway_start_sec_override) ==
    [c EXCEPT !.current_edge_start_sec =
                  IF edge_start_sec_override # 0 THEN edge_start_sec_override ELSE @,
              !.pathway_start_sec =
                  IF pathway_start_sec_override # 0 THEN pathway_start_sec_override ELSE @]

\* the difference, negative when the clock went back
LatencySigned(now_sec, start_sec) == now_sec - start_sec

\* max(now_sec - start, 0.0)
Latency(now_sec, start_sec) == Max(now_sec - start_sec, 0)

\* int(now_sec * 1e9), now_sec being a number of 1/SubMs milliseconds
ToNs(now_sec) == (now_sec * 1000000) \div SubMs

\* the context after the checkpoint, and the call of on_checkpoint_creation
CtxSetCheckpoint(c, tags, now_sec, edge_start_sec_override, pathway_start_sec_override, payload_size) ==
    LET sorted_tags == Sorted(tags)
        direction == Direction(sorted_tags)
        c1 == IF direction = c.previous_direction THEN Reuse(c, now_sec)
              ELSE Turn(c, direction, now_sec)
        c2 == Override(c1, edge_start_sec_override, pathway_start_sec_override)
        parent_hash == c2.hash
        hash_value == ComputeHash(sorted_tags, parent_hash)
    IN  [ctx |-> [c2 EXCEPT !.hash = hash_value, !.current_edge_start_sec = now_sec],
         call |-> [NoCall EXCEPT !.op = "checkpoint",
                                 !.now_ns = ToNs(now_sec),
                                 !.tags = sorted_tags,
                                 !.hash = hash_value,
                                 !.parent = parent_hash,
                                 !.edge = Latency(now_sec, c2.current_edge_start_sec),
                                 !.full = Latency(now_sec, c2.pathway_start_sec),
                                 !.val = payload_size]]

(***************************************************************************)
(* Initial state; the processor's recorders, periodic thread and shutdown  *)
(***************************************************************************)
CodecIdle ==
    /\ ctx = NoCtx
    /\ wire = PyNone
    /\ carrier = EmptyMap
    /\ result = NoResult
    /\ current_context = [t \in Recorders |-> Unset]
    /\ calls = << >>
    /\ trail = << >>

\* the processor after __init__(retry_attempts = one of attempts)
InitFrom(attempts) ==
    /\ retry_attempts \in attempts
    /\ buckets = EmptyMap
    /\ lock = NoThread
    /\ stopped = FALSE
    /\ rpc = [t \in Recorders |-> "idle"]
    /\ rcall = [t \in Recorders |-> NoCall]
    /\ rlocal = [t \in Recorders |-> NoLocal]
    /\ tpc = [k \in Tickers |-> "idle"]
    /\ snapshot = [k \in Tickers |-> {}]
    /\ resps = [k \in Tickers |-> << >>]
    /\ outcome = [k \in Tickers |-> "none"]
    /\ nrec = 0
    /\ nticks = 0
    /\ done = {}
    /\ drained = {}
    /\ predrain = [k \in Tickers |-> {}]
    /\ failed = {}
    /\ waits = [k \in Tickers |-> << >>]
    /\ CodecIdle

Init == InitFrom(RetryAttemptsChoices)

\* the processor with the default retry_attempts
InitThreads == InitFrom({3})

Next ==
    \/ \E t \in Recorders : RecAcquire(t)
    \/ \E t \in Recorders : RecRead(t)
    \/ \E t \in Recorders : RecWrite(t)
    \/ \E k \in Tickers : TickAcquire(k)
    \/ \E k \in Tickers : TickSerialize(k)
    \/ \E k \in Tickers : TickRelease(k)
    \/ \E k \in Tickers : SendAttempt(k)
    \/ \E k \in Tickers : BackoffDone(k)
    \/ \E k \in Tickers : TickReturn(k)
    \/ ShutdownStop

Spec == Init /\ [][Next]_vars

(***************************************************************************)
(* Recording into one window: recorder threads whose calls fall into the   *)
(* same bucket or the one before, and the periodic thread's drain          *)
(***************************************************************************)
\* now_ns of a call: 2 and 3 fall into the bucket starting at 2, 1 does not
WindowTimes == {1, 2, 3}

WindowSizes == {2, 3}

WindowOffsets == {3, 5}

WindowCalls(id) ==
    { [NoCall EXCEPT !.op = "checkpoint", !.id = id, !.now_ns = t, !.tags = tg,
                     !.hash = 2, !.parent = 1, !.edge = sz, !.full = sz + 1, !.val = sz] :
        t \in WindowTimes, tg \in EdgeTagLists, sz \in WindowSizes }
    \cup
    { [NoCall EXCEPT !.op = "produce", !.id = id, !.now_ns = t, !.key = k, !.val = o] :
        t \in WindowTimes, k \in PartitionKeys, o \in WindowOffsets }
    \cup
    { [NoCall EXCEPT !.op = "commit", !.id = id, !.now_ns = t, !.key = k, !.val = o] :
        t \in WindowTimes, k \in ConsumerPartitionKeys, o \in WindowOffsets }

WindowAcquire(t) ==
    /\ RecAcquireFrom(t, WindowCalls(nrec + 1))
    /\ calls' = Append(calls, [thread |-> t, call |-> rcall'[t]])

NextRecord ==
    \/ \E t \in Recorders : WindowAcquire(t)
    \/ \E t \in Recorders : RecRead(t)
    \/ \E t \in Recorders : RecWrite(t)
    \/ TickAcquire("periodic")
    \/ TickSerialize("periodic")
    \/ TickRelease("periodic")
    \/ TickReturn("periodic")

SpecRecord == Init /\ [][NextRecord]_vars

(***************************************************************************)
(* Offsets: track_kafka_produce and track_kafka_commit with offsets of     *)
(* either sign, and the drain                                              *)
(***************************************************************************)
\* offsets as a caller may give them: a negative one and a positive one
SignedOffsets == {0 - 3, 4}

OffsetCalls(id) ==
    { [NoCall EXCEPT !.op = "produce", !.id = id, !.now_ns = t, !.key = k, !.val = o] :
        t \in Times, k \in PartitionKeys, o \in SignedOffsets }
    \cup
    { [NoCall EXCEPT !.op = "commit", !.id = id, !.now_ns = t, !.key = k, !.val = o] :
        t \in Times, k \in ConsumerPartitionKeys, o \in SignedOffsets }

OffsetAcquire(t) ==
    /\ RecAcquireFrom(t, OffsetCalls(nrec + 1))
    /\ calls' = Append(calls, [thread |-> t, call |-> rcall'[t]])

NextOffsets ==
    \/ \E t \in Recorders : OffsetAcquire(t)
    \/ \E t \in Recorders : RecRead(t)
    \/ \E t \in Recorders : RecWrite(t)
    \/ TickAcquire("periodic")
    \/ TickSerialize("periodic")
    \/ TickRelease("periodic")
    \/ TickReturn("periodic")

SpecOffsets == InitThreads /\ [][NextOffsets]_vars

(***************************************************************************)
(* Edge tags: on_checkpoint_creation with tags of any text, and the drain  *)
(***************************************************************************)
\* "topic:a,b"
TagTopicComma == TagTopic \o <<Comma, 98>>

\* sorted tag lists as set_checkpoint hands them on: with a comma in a tag
\* and without
SortedTagLists == { <<TagDirectionIn, TagTopic>>, <<TagDirectionIn, TagTopicComma>> }

TagCalls(id) ==
    { [NoCall EXCEPT !.op = "checkpoint", !.id = id, !.now_ns = t, !.tags = tg,
                     !.hash = 2, !.parent = 1, !.edge = 1, !.full = 1, !.val = sz] :
        t \in Times, tg \in SortedTagLists, sz \in PayloadSizes }

TagsAcquire(t) ==
    /\ RecAcquireFrom(t, TagCalls(nrec + 1))
    /\ calls' = Append(calls, [thread |-> t, call |-> rcall'[t]])

NextTags ==
    \/ \E t \in Recorders : TagsAcquire(t)
    \/ \E t \in Recorders : RecRead(t)
    \/ \E t \in Recorders : RecWrite(t)
    \/ TickAcquire("periodic")
    \/ TickSerialize("periodic")
    \/ TickRelease("periodic")
    \/ TickReturn("periodic")

SpecTags == InitThreads /\ [][NextTags]_vars

(***************************************************************************)
(* Retrying: one recorded sample and the flush of shutdown(), with the     *)
(* waits between its send attempts                                         *)
(***************************************************************************)
BackoffCalls(id) ==
    { [NoCall EXCEPT !.op = "checkpoint", !.id = id, !.now_ns = 1,
                     !.tags = <<TagDirectionIn, TagTopic>>,
                     !.hash = 2, !.parent = 1, !.edge = 1, !.full = 1, !.val = 1] }

BackoffAcquire(t) ==
    /\ RecAcquireFrom(t, BackoffCalls(nrec + 1))
    /\ UNCHANGED calls

InitBackoff == InitFrom(1 .. MaxAttempts)

NextBackoff ==
    \/ \E t \in Recorders : BackoffAcquire(t)
    \/ \E t \in Recorders : RecRead(t)
    \/ \E t \in Recorders : RecWrite(t)
    \/ TickAcquire("shutdown")
    \/ TickSerialize("shutdown")
    \/ TickRelease("shutdown")
    \/ SendAttempt("shutdown")
    \/ BackoffWait("shutdown")
    \/ TickReturn("shutdown")
    \/ ShutdownStop

SpecBackoff == InitBackoff /\ [][NextBackoff]_vars

(***************************************************************************)
(* The codec: contexts, header values and carriers it is applied to        *)
(***************************************************************************)
Hashes == {0, 1, 70000}

StartPairs == {<<0, 0>>, <<3, 400>>, <<401, 3>>}

Contexts == {DataStreamsCtx(h, sp[1], sp[2]) : h \in Hashes, sp \in StartPairs}

Nows == {5, 7}

TruncLens == {3, 8, 12}

Truncated(v, n) == [v EXCEPT !.data = SubSeq(@, 1, n)]

\* a text loses its first character to one outside the alphabet; the last
\* byte of a byte string announces a byte that is not there
Corrupted(v) ==
    IF v.type = "str" THEN [v EXCEPT !.data[1] = 33]
    ELSE [v EXCEPT !.data[Len(v.data)] = IF @ < 128 THEN @ + 128 ELSE @]

OtherValues == {PyNone, PyInt(5), PyStr(<< >>), PyBytes(<< >>)}

Mangled(v) ==
    {Truncated(v, n) : n \in {m \in TruncLens : m < Len(v.data)}} \cup {Corrupted(v)}

RefCtx == DataStreamsCtx(70000, 3, 400)

CarrierContexts ==
    {DataStreamsCtx(0, 3, 400), DataStreamsCtx(1, 3, 400), DataStreamsCtx(70000, 401, 3)}

Base64Values ==
    {PyStr(CtxEncodeB64(c)) : c \in CarrierContexts}
        \cup Mangled(PyStr(CtxEncodeB64(RefCtx)))
        \cup {PyStr(<< >>), PyNone, PyInt(5)}

LegacyValues ==
    {PyBytes(CtxEncode(c)) : c \in CarrierContexts}
        \cup {PyStr(CtxEncodeB64(c)) : c \in CarrierContexts}
        \cup Mangled(PyBytes(CtxEncode(RefCtx)))
        \cup {PyBytes(<< >>)}

Absent == [type |-> "absent", data |-> << >>]

PutIfPresent(m, k, v) == IF v = Absent THEN m ELSE Put(m, k, v)

Carriers ==
    {PutIfPresent(PutIfPresent(PutIfPresent(EmptyMap, OtherKey, o),
                               PROPAGATION_KEY, l),
                  PROPAGATION_KEY_BASE_64, b) :
        b \in Base64Values \cup {Absent},
        l \in LegacyValues \cup {Absent},
        o \in {PyStr(<<48>>), Absent}}

Called(op, r, c, now, before) ==
    [op |-> op, raised |-> r, ctx |-> c, now |-> now, before |-> before]

\* a context to encode
PickCtx(c) ==
    /\ carrier = EmptyMap
    /\ ctx' = c
    /\ wire' = PyNone
    /\ result' = NoResult
    /\ UNCHANGED <<carrier, current_context, procVars, calls, chkVars, retryVars>>

\* ctx.encode()
Encode ==
    /\ carrier = EmptyMap
    /\ wire' = PyBytes(CtxEncode(ctx))
    /\ result' = NoResult
    /\ UNCHANGED <<ctx, carrier, current_context, procVars, calls, chkVars, retryVars>>

\* ctx.encode_b64()
EncodeB64 ==
    /\ carrier = EmptyMap
    /\ wire' = PyStr(CtxEncodeB64(ctx))
    /\ result' = NoResult
    /\ UNCHANGED <<ctx, carrier, current_context, procVars, calls, chkVars, retryVars>>

\* the value arrives cut short
Truncate(n) ==
    /\ wire.type \in {"bytes", "str"}
    /\ n < Len(wire.data)
    /\ wire' = Truncated(wire, n)
    /\ result' = NoResult
    /\ UNCHANGED <<ctx, carrier, current_context, procVars, calls, chkVars, retryVars>>

\* the value arrives damaged
Corrupt ==
    /\ wire.type \in {"bytes", "str"}
    /\ wire.data # << >>
    /\ wire' = Corrupted(wire)
    /\ wire' # wire
    /\ result' = NoResult
    /\ UNCHANGED <<ctx, carrier, current_context, procVars, calls, chkVars, retryVars>>

\* a header that never held a pathway
SetValue(v) ==
    /\ carrier = EmptyMap
    /\ wire' = v
    /\ result' = NoResult
    /\ UNCHANGED <<ctx, carrier, current_context, procVars, calls, chkVars, retryVars>>

\* processor.decode_pathway(wire)
DoDecodePathway(now) ==
    /\ carrier = EmptyMap
    /\ LET r == DecodePathway(wire, now, Cur(CodecThread))
       IN  /\ result' = Called("decode_pathway", r.raised, r.ctx, now, EmptyMap)
           /\ current_context' = SetCur(CodecThread, r.cur)
    /\ UNCHANGED <<ctx, wire, carrier, procVars, calls, chkVars, retryVars>>

\* processor.decode_pathway_b64(wire)
DoDecodePathwayB64(now) ==
    /\ carrier = EmptyMap
    /\ LET r == DecodePathwayB64(wire, now, Cur(CodecThread))
       IN  /\ result' = Called("decode_pathway_b64", r.raised, r.ctx, now, EmptyMap)
           /\ current_context' = SetCur(CodecThread, r.cur)
    /\ UNCHANGED <<ctx, wire, carrier, procVars, calls, chkVars, retryVars>>

\* the headers of a message
SetCarrier(c) ==
    /\ carrier = EmptyMap
    /\ wire = PyNone
    /\ result = NoResult
    /\ c # EmptyMap
    /\ carrier' = c
    /\ UNCHANGED <<ctx, wire, result, current_context, procVars, calls, chkVars, retryVars>>

\* DsmPathwayCodec.encode(ctx, carrier)
DoCodecEncode ==
    /\ wire = PyNone
    /\ result = NoResult
    /\ carrier' = CodecEncode(ctx, carrier)
    /\ result' = Called("codec_encode", "", ctx, 0, carrier)
    /\ UNCHANGED <<ctx, wire, current_context, procVars, calls, chkVars, retryVars>>

\* DsmPathwayCodec.decode(carrier, processor)
DoCodecDecode(now) ==
    /\ wire = PyNone
    /\ result.op # "codec_encode"
    /\ LET r == CodecDecode(carrier, now, Cur(CodecThread))
       IN  /\ result' = Called("codec_decode", r.raised, r.ctx, now, EmptyMap)
           /\ current_context' = SetCur(CodecThread, r.cur)
    /\ UNCHANGED <<ctx, wire, carrier, procVars, calls, chkVars, retryVars>>

\* the next message
Reset ==
    /\ carrier # EmptyMap \/ result # NoResult
    /\ wire = PyNone
    /\ carrier' = EmptyMap
    /\ result' = NoResult
    /\ UNCHANGED <<ctx, wire, current_context, procVars, calls, chkVars, retryVars>>

NextCodec ==
    \/ \E c \in Contexts : PickCtx(c)
    \/ Encode
    \/ EncodeB64
    \/ \E n \in TruncLens : Truncate(n)
    \/ Corrupt
    \/ \E v \in OtherValues : SetValue(v)
    \/ \E now \in Nows : DoDecodePathway(now)
    \/ \E now \in Nows : DoDecodePathwayB64(now)
    \/ \E c \in Carriers : SetCarrier(c)
    \/ DoCodecEncode
    \/ \E now \in Nows : DoCodecDecode(now)
    \/ Reset

SpecCodec == Init /\ [][NextCodec]_vars

(***************************************************************************)
(* Checkpoints set on one context by one thread                            *)
(***************************************************************************)
\* a context from new_pathway, and one decoded from a header
StartContexts == {NewPathway(5), DataStreamsCtx(70000, 3, 400)}

\* tag lists as callers give them, not sorted
CheckpointTagLists ==
    {<<TagTopic, TagDirectionOut>>, <<TagType, TagTopic, TagDirectionIn>>}

CheckpointNows == {2, 9}

\* edge_start_sec_override and pathway_start_sec_override, 0 for none
Overrides == {<<0, 0>>, <<10, 0>>, <<0, 1>>}

CheckpointSizes == {4}

\* ctx.set_checkpoint(tags, now_sec, ...), the whole of it: the context is
\* updated and on_checkpoint_creation adds the sample under the lock
SetCheckpoint(tags, now_sec, over, payload_size) ==
    /\ Len(trail) < MaxCheckpoints
    /\ ctx # NoCtx
    /\ LockFree(lock)
    /\ \E r \in {CtxSetCheckpoint(ctx, tags, now_sec, over[1], over[2], payload_size)} :
       LET sample == [r.call EXCEPT !.id = nrec + 1]
           bt == BucketTime(sample.now_ns)
           key == AggrKey(sample)
       IN  /\ ctx' = r.ctx
           /\ buckets' = StoreStats(TouchStats(buckets, bt, key), bt, key,
                                    AddSample(ReadStats(buckets, bt, key), sample), sample.id)
           /\ nrec' = nrec + 1
           /\ done' = done \cup {sample.id}
           /\ trail' = Append(trail, [before |-> ctx, tags |-> tags, now |-> now_sec,
                                      edge_override |-> over[1],
                                      pathway_override |-> over[2],
                                      call |-> sample, after |-> r.ctx])
    /\ UNCHANGED <<retry_attempts, lock, stopped, rpc, rcall, rlocal, tpc, snapshot,
                   resps, outcome, nticks, drained, predrain, failed,
                   wire, carrier, result, current_context, calls, retryVars>>

\* the context the checkpoints are set on
StartPathway(c) ==
    /\ trail = << >>
    /\ PickCtx(c)

NextCheckpoint ==
    \/ \E c \in StartContexts : StartPathway(c)
    \/ \E tags \in CheckpointTagLists, now_sec \in CheckpointNows, over \in Overrides,
          payload_size \in CheckpointSizes :
          SetCheckpoint(tags, now_sec, over, payload_size)

SpecCheckpoint == Init /\ [][NextCheckpoint]_vars

(***************************************************************************)
(* The direction of a checkpoint: set_checkpoint with tags that go out,    *)
(* come in, or name no direction                                           *)
(***************************************************************************)
DirectionTagLists ==
    {<<TagTopic, TagDirectionOut>>, <<TagType, TagTopic, TagDirectionIn>>, <<TagTopic>>}

DirectionOverrides == {<<0, 0>>, <<10, 1>>}

\* a context as decode_pathway makes it from a header with a hash
DecodedCtx == DecodePathway(PyBytes(CtxEncode(DataStreamsCtx(70000, 4, 6))), 5, Unset).ctx

\* the context the checkpoints are set on: a new pathway, or a decoded one
DirectionStarts == {NewPathway(5), DecodedCtx}

NextDirection ==
    \/ \E c \in DirectionStarts : StartPathway(c)
    \/ \E tags \in DirectionTagLists, now_sec \in CheckpointNows, over \in DirectionOverrides,
          payload_size \in CheckpointSizes :
          SetCheckpoint(tags, now_sec, over, payload_size)

SpecDirection == InitThreads /\ [][NextDirection]_vars

(***************************************************************************)
(* The current context: decode_pathway and the processor's set_checkpoint  *)
(* called on several threads                                               *)
(***************************************************************************)
\* what decode_pathway is given: a pathway with a hash, and the same cut short
ThreadPathways == {PyBytes(CtxEncode(RefCtx)), Truncated(PyBytes(CtxEncode(RefCtx)), 8)}

\* what decode_pathway_b64 is given: a pathway with a hash, or no header
ThreadHeaders == {PyStr(CtxEncodeB64(RefCtx)), PyNone}

\* what DsmPathwayCodec.decode is given: a carrier with the pathway, or
\* one without
ThreadCarriers == {Put(EmptyMap, PROPAGATION_KEY_BASE_64, PyStr(CtxEncodeB64(RefCtx))), Put(EmptyMap, OtherKey, PyStr(<<48>>))}

\* now_sec of the processor's set_checkpoint; 0 stands for None
ThreadNows == {0, 9}

\* time.time() when the call is made
WallClocks == {7}

\* one call on a thread, as the history keeps it: seen is the thread's
\* attribute as the call found it, start the context it worked on
ThreadOp(t, op, seen, start, after, call) ==
    [thread |-> t, op |-> op, seen |-> seen, start |-> start, after |-> after, call |-> call]

\* processor.decode_pathway(data) on thread t
ThreadDecodePathway(t, data, wall) ==
    /\ Len(trail) < MaxCheckpoints
    /\ LET r == DecodePathway(data, wall, Cur(t))
       IN  /\ r.raised = ""
           /\ current_context' = SetCur(t, r.cur)
           /\ trail' = Append(trail, ThreadOp(t, "decode_pathway", Cur(t), r.ctx, r.cur, NoCall))
    /\ UNCHANGED <<procVars, ctx, wire, carrier, result, calls, retryVars>>

\* processor.decode_pathway_b64(data) on thread t
ThreadDecodePathwayB64(t, data, wall) ==
    /\ Len(trail) < MaxCheckpoints
    /\ LET r == DecodePathwayB64(data, wall, Cur(t))
       IN  /\ r.raised = ""
           /\ current_context' = SetCur(t, r.cur)
           /\ trail' = Append(trail, ThreadOp(t, "decode_pathway_b64", Cur(t), r.ctx, r.cur, NoCall))
    /\ UNCHANGED <<procVars, ctx, wire, carrier, result, calls, retryVars>>

\* DsmPathwayCodec.decode(carrier, processor) on thread t
ThreadCodecDecode(t, carr, wall) ==
    /\ Len(trail) < MaxCheckpoints
    /\ LET r == CodecDecode(carr, wall, Cur(t))
       IN  /\ r.raised = ""
           /\ current_context' = SetCur(t, r.cur)
           /\ trail' = Append(trail, ThreadOp(t, "codec_decode", Cur(t), r.ctx, r.cur, NoCall))
    /\ UNCHANGED <<procVars, ctx, wire, carrier, result, calls, retryVars>>

\* the context the processor's set_checkpoint works on: the thread's own,
\* or a new pathway
CurrentOrNew(cur, wall) == IF cur.set THEN cur.value ELSE NewPathway(wall)

\* payload_size, with the header added to what goes out
WithHeader(c, tags, payload_size) ==
    IF \E i \in 1 .. Len(tags) : tags[i] = TagDirectionOut
    THEN payload_size + Len(CtxEncodeB64(c)) + Len(PROPAGATION_KEY_BASE_64)
    ELSE payload_size

\* processor.set_checkpoint(tags, now_sec, payload_size) on thread t, the
\* whole of it: the thread's context advances and the sample is recorded
ProcessorSetCheckpoint(t, tags, now_sec, payload_size, wall) ==
    /\ Len(trail) < MaxCheckpoints
    /\ LockFree(lock)
    /\ LET c0 == CurrentOrNew(Cur(t), wall)
           now == IF now_sec = 0 THEN wall ELSE now_sec
       IN  \E r \in {CtxSetCheckpoint(c0, tags, now, 0, 0, WithHeader(c0, tags, payload_size))} :
           LET sample == [r.call EXCEPT !.id = nrec + 1]
               bt == BucketTime(sample.now_ns)
               key == AggrKey(sample)
           IN  /\ current_context' = SetCur(t, [set |-> TRUE, value |-> r.ctx])
               /\ buckets' = StoreStats(TouchStats(buckets, bt, key), bt, key,
                                        AddSample(ReadStats(buckets, bt, key), sample), sample.id)
               /\ nrec' = nrec + 1
               /\ done' = done \cup {sample.id}
               /\ trail' = Append(trail, ThreadOp(t, "set_checkpoint", Cur(t), c0,
                                                  [set |-> TRUE, value |-> r.ctx], sample))
    /\ UNCHANGED <<retry_attempts, lock, stopped, rpc, rcall, rlocal, tpc, snapshot,
                   resps, outcome, nticks, drained, predrain, failed,
                   ctx, wire, carrier, result, calls, retryVars>>

NextThreads ==
    \/ \E t \in Recorders, data \in ThreadPathways, wall \in WallClocks :
          ThreadDecodePathway(t, data, wall)
    \/ \E t \in Recorders, data \in ThreadHeaders, wall \in WallClocks :
          ThreadDecodePathwayB64(t, data, wall)
    \/ \E t \in Recorders, carr \in ThreadCarriers, wall \in WallClocks :
          ThreadCodecDecode(t, carr, wall)
    \/ \E t \in Recorders, tags \in CheckpointTagLists, now_sec \in ThreadNows,
          payload_size \in CheckpointSizes, wall \in WallClocks :
          ProcessorSetCheckpoint(t, tags, now_sec, payload_size, wall)

SpecThreads == InitThreads /\ [][NextThreads]_vars

(***************************************************************************)
(* Properties of the processor                                             *)
(***************************************************************************)
PostDrain == {"serialized", "send", "backoff", "return"}

InFlight == {"serialized", "send", "backoff"}

Last(s) == s[Len(s)]

AllExc(s) == \A i \in 1 .. Len(s) : s[i].exc

HttpError(resp) == ~resp.exc /\ resp.status >= 400

\* C1: a drain leaves the bucket map empty; the snapshot it took holds exactly
\* the calls that returned before it and that no earlier tick drained; a call
\* that returns later sits in a bucket of the map, which holds no drained call
\* and shares no call with any snapshot; no call that returned is lost.
DrainCompleteExclusive ==
    /\ \A k \in Tickers :
          /\ tpc[k] = "serialized" =>
                /\ buckets = EmptyMap
                /\ IdsOf(snapshot[k]) = done \ predrain[k]
          /\ tpc[k] \in PostDrain =>
                /\ IdsOf(snapshot[k]) \cap IdsIn(buckets) = {}
                /\ IdsOf(snapshot[k]) \cap predrain[k] = {}
                /\ IdsOf(snapshot[k]) \subseteq drained
    /\ IdsIn(buckets) \cap drained = {}
    /\ done \subseteq IdsIn(buckets) \cup drained

\* C1 witness: a tick holds a non-empty snapshot while a call recorded after
\* its drain sits in the map.
DrainThenRecord ==
    \E k \in Tickers :
        /\ tpc[k] \in {"send", "backoff"}
        /\ snapshot[k] # {}
        /\ IdsIn(buckets) # {}
        /\ IdsIn(buckets) \subseteq done

\* C2: a tick never makes more than retry_attempts send attempts, and a tick
\* whose every attempt raised made exactly retry_attempts of them and dropped
\* its payload.
RetryBound ==
    \A k \in Tickers :
        /\ Len(resps[k]) <= retry_attempts
        /\ tpc[k] \in {"send", "backoff"} => Len(resps[k]) < retry_attempts
        /\ (tpc[k] = "return" /\ resps[k] # << >> /\ AllExc(resps[k])) =>
              /\ Len(resps[k]) = retry_attempts
              /\ outcome[k] = "dropped"

\* C2 witness: with retry_attempts = 3 a tick has ended after three attempts
\* that all raised.
ThreeFailedAttempts ==
    \E k \in Tickers :
        /\ retry_attempts = 3
        /\ tpc[k] = "return"
        /\ Len(resps[k]) = 3
        /\ AllExc(resps[k])
        /\ outcome[k] = "dropped"

\* C3 as claimed: a send answered with a status >= 400 other than 404 is
\* retried while attempts are left.
HttpErrorRetried ==
    \A k \in Tickers :
        (/\ resps[k] # << >>
         /\ HttpError(Last(resps[k]))
         /\ Last(resps[k]).status # 404
         /\ Len(resps[k]) < retry_attempts)
        => tpc[k] \in {"backoff", "send"}

\* C3 amended: a send answered with a status >= 400 other than 404 is not
\* retried: it is the last attempt of its tick, which drops the payload; a
\* wait for a retry follows only an attempt that raised.
HttpErrorNotRetried ==
    \A k \in Tickers :
        /\ (resps[k] # << >> /\ HttpError(Last(resps[k])) /\ Last(resps[k]).status # 404) =>
              /\ tpc[k] = "return"
              /\ outcome[k] = "dropped"
        /\ tpc[k] \in {"backoff", "send"} => AllExc(resps[k])

\* C3 witness: a tick ended on a 500 although attempts were left.
ServerErrorEndsTick ==
    \E k \in Tickers :
        /\ tpc[k] = "return"
        /\ resps[k] # << >>
        /\ Last(resps[k]) = [exc |-> FALSE, status |-> 500]
        /\ Len(resps[k]) < retry_attempts

\* C4: a send answered with 404 is the last attempt of its tick, which drops
\* the payload and returns; a tick whose first answer is 404 made one attempt.
NotFoundNotRetried ==
    \A k \in Tickers :
        /\ (resps[k] # << >> /\ ~Last(resps[k]).exc /\ Last(resps[k]).status = 404) =>
              /\ tpc[k] = "return"
              /\ outcome[k] = "dropped"
        /\ (resps[k] # << >> /\ ~resps[k][1].exc /\ resps[k][1].status = 404) =>
              Len(resps[k]) = 1

\* C4 witness: a tick ended after a single attempt answered with 404, with
\* attempts left.
NotFoundEndsTick ==
    \E k \in Tickers :
        /\ tpc[k] = "return"
        /\ resps[k] = << [exc |-> FALSE, status |-> 404] >>
        /\ retry_attempts = 3

\* C5: periodic never raises; a payload that was dropped is not in the bucket
\* map again and no later tick has any of it in its snapshot; the recorder
\* calls only ever wait for the lock or hold it.
ExportFailureContained ==
    /\ \A k \in Tickers :
          /\ tpc[k] # "raised"
          /\ tpc[k] \in InFlight => IdsOf(snapshot[k]) \cap failed = {}
          /\ (tpc[k] = "return" /\ outcome[k] = "dropped") =>
                /\ IdsOf(snapshot[k]) \subseteq failed
                /\ IdsOf(snapshot[k]) # {}
    /\ failed \cap IdsIn(buckets) = {}
    /\ \A t \in Recorders : rpc[t] \in {"idle", "locked", "read"}

\* C5 witness: after a tick dropped its payload with every attempt raising,
\* another tick is sending data recorded since.
TickAfterFailure ==
    \E k \in Tickers : \E j \in Tickers \ {k} :
        /\ tpc[k] = "send"
        /\ snapshot[k] # {}
        /\ failed # {}
        /\ tpc[j] \in {"return", "stop", "stopped", "idle"}
        /\ IdsOf(snapshot[k]) \cap failed = {}

\* C19: the exporter does not hold the bucket lock while it sends: whenever
\* a tick is in the HTTP send or in a backoff wait, the lock is not held by
\* that tick.
NoLockWhileSending ==
    \A k \in Tickers : tpc[k] \in {"send", "backoff"} => lock # k

\* a recorder holds the lock while a tick waits between two send attempts
RecorderLockedDuringBackoff ==
    \E k \in Tickers, t \in Recorders :
        tpc[k] = "backoff" /\ rpc[t] = "locked" /\ lock = t

\* C20 as stated: the serialized bucket entries are built after the lock is
\* released, so a tick that has built entries does not hold the lock.
SerializeOutsideLock ==
    \A k \in Tickers : snapshot[k] # {} => lock # k

\* C20, amended: the serialized bucket entries are built under the lock: a
\* tick that has serialized and not yet left the with block holds the lock,
\* and the bucket map is empty; once it is past the block it no longer holds
\* the lock.
SerializeUnderLock ==
    \A k \in Tickers :
        /\ tpc[k] = "serialized" => (lock = k /\ buckets = EmptyMap)
        /\ tpc[k] \in {"send", "backoff", "return"} => lock # k

\* a tick has built a non-empty list of entries and still holds the lock
SerializedHoldingLock ==
    \E k \in Tickers : tpc[k] = "serialized" /\ snapshot[k] # {} /\ lock = k

(***************************************************************************)
(* Properties of the ticks and of shutdown                                 *)
(***************************************************************************)
\* periodic() is being executed for ticker k
InTick(k) == tpc[k] \in {"locked", "serialized", "send", "backoff", "return"}

\* ticker k is inside the with block of periodic()
InDrain(k) == tpc[k] \in {"locked", "serialized"}

\* C21 as stated: no two executions of periodic() are in progress at once,
\* the one shutdown() runs on its caller's thread included.
NoOverlappingTicks == ~(InTick("periodic") /\ InTick("shutdown"))

\* C21, amended: the periodic() that shutdown() runs can be in progress
\* together with a tick of the periodic thread; what never overlaps is their
\* with blocks: at most one of them is draining the bucket map.
DrainsNeverOverlap == ~(InDrain("periodic") /\ InDrain("shutdown"))

\* the periodic thread drains while the flush of shutdown() is sending
PeriodicDrainsDuringFinalFlush ==
    /\ InDrain("periodic")
    /\ lock = "periodic"
    /\ tpc["shutdown"] \in InFlight

PeriodicTickStarts == tpc["periodic"] = "idle" /\ tpc'["periodic"] = "locked"

\* C22 as stated: no tick of the periodic thread starts after the final
\* flush of shutdown() has started.
NoTickAfterFinalFlushStarts ==
    [][PeriodicTickStarts => tpc["shutdown"] = "idle"]_vars

\* C22, amended: shutdown() runs the final flush first and stops the
\* periodic thread after it; a tick of the periodic thread can start while
\* the final flush is in progress, and none starts once shutdown() has
\* returned.
NoTickAfterShutdownReturns ==
    [][PeriodicTickStarts => (~stopped /\ tpc["shutdown"] # "stopped")]_vars

\* shutdown() has returned while the periodic thread still had a tick to run
TickRefusedAfterStop ==
    /\ tpc["shutdown"] = "stopped"
    /\ stopped
    /\ tpc["periodic"] = "idle"
    /\ nticks < MaxTicks
    /\ ~ENABLED TickAcquire("periodic")

\* C23: the exporter is stopped by shutdown() only, called by the application
\* or by the exit hook: the periodic() of shutdown() has returned when
\* stop() is called, and a failed final flush does not raise out of
\* periodic(), so nothing propagates out of shutdown() or of the hook.
FinalTickBeforeStop ==
    [][/\ (~stopped /\ stopped') => tpc["shutdown"] = "stop"
       /\ (tpc["shutdown"] # "stop" /\ tpc'["shutdown"] = "stop") =>
              tpc["shutdown"] = "return"
       /\ tpc'["shutdown"] # "raised"]_vars

\* the final flush failed on its last attempt and periodic() is returning
FinalFlushFailedQuietly ==
    /\ tpc["shutdown"] = "return"
    /\ outcome["shutdown"] = "dropped"
    /\ resps["shutdown"] # << >>
    /\ AllExc(resps["shutdown"])
    /\ ~stopped

\* C24: a tick whose drain returned no bucket makes no send attempt: a tick
\* that is sending, waiting to retry or has made an attempt has drained at
\* least one bucket, and a skipped tick has made no attempt.
NoSendForEmptyDrain ==
    \A k \in Tickers :
        /\ (tpc[k] \in {"send", "backoff"} \/ resps[k] # << >>) => snapshot[k] # {}
        /\ outcome[k] = "skipped" => (snapshot[k] = {} /\ resps[k] = << >>)

\* a tick drained an empty bucket map and returns without an attempt
EmptyDrainSkipped ==
    \E k \in Tickers :
        /\ tpc[k] = "return"
        /\ outcome[k] = "skipped"
        /\ snapshot[k] = {}
        /\ resps[k] = << >>

\* the threads inside a "with self._lock" block
InSection ==
    {t \in Recorders : rpc[t] \in {"locked", "read"}} \cup {k \in Tickers : InDrain(k)}

\* C28: the bucket map is read and written under the lock only: at most one
\* recorder call or drain is inside its with block, it holds the lock, and
\* the bucket map changes only in a step of the thread holding the lock.
BucketMapUnderLock ==
    /\ [](Cardinality(InSection) <= 1 /\ \A x \in InSection : lock = x)
    /\ [][buckets' # buckets => (lock # NoThread /\ lock \in InSection)]_vars

\* the flush of shutdown() drains while a tick of the periodic thread sends
\* and a recorder call has gone before
FinalDrainDuringPeriodicSend ==
    /\ tpc["shutdown"] = "locked"
    /\ lock = "shutdown"
    /\ tpc["periodic"] \in InFlight
    /\ buckets # EmptyMap

\* C29: every recorder call is in at most one serialized payload: the
\* payloads of two ticks share no call, a payload holds no call an earlier
\* drain serialized, and no serialized call is left in the bucket map.
ExactlyOnceDrain ==
    /\ \A j, k \in Tickers :
           (j # k /\ tpc[j] \in PostDrain /\ tpc[k] \in PostDrain) =>
               IdsOf(snapshot[j]) \cap IdsOf(snapshot[k]) = {}
    /\ \A k \in Tickers :
           tpc[k] \in PostDrain => IdsOf(snapshot[k]) \cap predrain[k] = {}
    /\ IdsIn(buckets) \cap drained = {}

\* a tick and the flush of shutdown() each hold a payload of their own
TwoPayloadsInFlight ==
    /\ tpc["periodic"] \in PostDrain
    /\ tpc["shutdown"] \in PostDrain
    /\ snapshot["periodic"] # {}
    /\ snapshot["shutdown"] # {}

\* C30 as stated: once shutdown() has returned every recorder call that
\* returned has been serialized and the bucket map is empty.
ShutdownLeavesNothing ==
    tpc["shutdown"] = "stopped" => (done \subseteq drained /\ buckets = EmptyMap)

\* C30, amended: the drain of shutdown() serializes every recorder call that
\* returned before it and that no tick had serialized, leaving the bucket
\* map empty, and a serialized call stays serialized; a call that returns
\* after that drain stays in the bucket map unless a later tick of the
\* periodic thread drains it.
FinalDrainTakesAllBefore ==
    /\ [](tpc["shutdown"] = "serialized" => (done \subseteq drained /\ buckets = EmptyMap))
    /\ [][drained \subseteq drained']_vars

\* shutdown() has returned, every thread is idle, and a call that returned
\* after the final drain is left in the bucket map
LateSampleLeftBehind ==
    /\ tpc["shutdown"] = "stopped"
    /\ tpc["periodic"] = "idle"
    /\ \A t \in Recorders : rpc[t] = "idle"
    /\ done \ drained # {}
    /\ done \ drained \subseteq IdsIn(buckets)
    /\ drained # {}

(***************************************************************************)
(* Properties of the waits between send attempts                           *)
(***************************************************************************)
\* C27: the waits a tick sleeps between its send attempts add up to less
\* than one flush interval, whatever retry_attempts >= 1 is and whatever the
\* jitter gives; there is one wait less than there are attempts.
RetryTimeUnderInterval ==
    \A k \in Tickers :
        /\ SumSeq(waits[k]) < Interval
        /\ Len(waits[k]) <= retry_attempts - 1

\* every attempt of the largest number of attempts failed and every wait
\* was as long as the jitter allows
LongestRetry ==
    /\ retry_attempts = MaxAttempts
    /\ Len(resps["shutdown"]) = MaxAttempts
    /\ AllExc(resps["shutdown"])
    /\ Len(waits["shutdown"]) = MaxAttempts - 1
    /\ \A n \in 1 .. MaxAttempts - 1 :
           /\ waits["shutdown"][n] = WaitLimit(MaxAttempts, n)
           /\ waits["shutdown"][n] > 0
    /\ SumSeq(waits["shutdown"]) > Interval \div 8

(***************************************************************************)
(* Properties of recording into one window                                 *)
(***************************************************************************)
\* the calls that returned and that no drain has taken
Live == {i \in 1..Len(calls) : i \in done /\ i \notin drained}

LiveOf(op) == {i \in Live : calls[i].call.op = op}

SameWindow(i, j) ==
    calls[i].call.now_ns \div BucketSizeNs = calls[j].call.now_ns \div BucketSizeNs

RECURSIVE SumVal(_)
SumVal(S) ==
    IF S = {} THEN 0
    ELSE LET i == CHOOSE x \in S : TRUE IN calls[i].call.val + SumVal(S \ {i})

\* C15: bucket alignment: two on_checkpoint_creation calls with the same
\* aggregation key and times in the same window, with no drain since, are in
\* one entry of the bucket that starts the window; when they are the only two,
\* its payload count is 2, its payload sum is the sum of the two sizes, and
\* each latency distribution holds the two samples.
BucketAlignment ==
    \A i \in LiveOf("checkpoint"), j \in LiveOf("checkpoint") :
        (i < j /\ AggrKey(calls[i].call) = AggrKey(calls[j].call) /\ SameWindow(i, j)) =>
            LET a == calls[i].call
                b == calls[j].call
                bt == (a.now_ns \div BucketSizeNs) * BucketSizeNs
                key == AggrKey(a)
                only == \A k \in LiveOf("checkpoint") :
                            (AggrKey(calls[k].call) = key /\ SameWindow(k, i)) => k \in {i, j}
            IN  /\ bt \in DOMAIN buckets
                /\ key \in DOMAIN buckets[bt].pathway_stats
                /\ only =>
                     LET e == buckets[bt].pathway_stats[key]
                     IN  /\ e.payload_size = [count |-> 2, sum |-> a.val + b.val]
                         /\ e.edge_latency = [count |-> 2, sum |-> a.edge + b.edge]
                         /\ e.full_pathway_latency = [count |-> 2, sum |-> a.full + b.full]

\* two calls at different times of one window and with different sizes are
\* in one entry
TwoSamplesOneEntry ==
    \E i \in LiveOf("checkpoint"), j \in LiveOf("checkpoint") :
        /\ calls[i].call.now_ns = 2
        /\ calls[j].call.now_ns = 3
        /\ calls[i].call.val # calls[j].call.val
        /\ 2 \in DOMAIN buckets
        /\ AggrKey(calls[i].call) \in DOMAIN buckets[2].pathway_stats
        /\ buckets[2].pathway_stats[AggrKey(calls[i].call)].payload_size.count = 2

Samples(bt, key) ==
    {i \in LiveOf("checkpoint") :
        AggrKey(calls[i].call) = key /\ BucketTime(calls[i].call.now_ns) = bt}

\* C16: no lost update: whatever the interleaving of the recorder threads,
\* the payload count of an entry is the number of on_checkpoint_creation calls
\* that returned for its key and window since the last drain, and its sum is
\* the sum of their sizes.
NoLostUpdate ==
    \A bt \in DOMAIN buckets :
        \A key \in DOMAIN buckets[bt].pathway_stats :
            /\ buckets[bt].pathway_stats[key].payload_size.count
                   = Cardinality(Samples(bt, key))
            /\ buckets[bt].pathway_stats[key].payload_size.sum = SumVal(Samples(bt, key))

\* two threads have each added a sample to one entry
TwoThreadsOneEntry ==
    \E bt \in DOMAIN buckets :
        \E key \in DOMAIN buckets[bt].pathway_stats :
            /\ buckets[bt].pathway_stats[key].payload_size.count = 2
            /\ {calls[i].thread : i \in Samples(bt, key)} = Recorders

NoOffsetDecrease ==
    \A bt \in (DOMAIN buckets) \cap (DOMAIN buckets') :
        /\ \A k \in DOMAIN buckets[bt].latest_produce_offsets :
               /\ k \in DOMAIN buckets'[bt].latest_produce_offsets
               /\ buckets'[bt].latest_produce_offsets[k] >= buckets[bt].latest_produce_offsets[k]
        /\ \A k \in DOMAIN buckets[bt].latest_commit_offsets :
               /\ k \in DOMAIN buckets'[bt].latest_commit_offsets
               /\ buckets'[bt].latest_commit_offsets[k] >= buckets[bt].latest_commit_offsets[k]

\* C17: offset monotonicity: in a bucket, the offset stored for a produce key
\* or a commit key never decreases, whatever track_kafka_produce and
\* track_kafka_commit calls are made.
OffsetMonotonic == [][NoOffsetDecrease]_vars

\* offset 5 and then offset 3 were recorded for one commit key in one bucket,
\* which holds 5
LowerOffsetAfterHigher ==
    \E i \in LiveOf("commit"), j \in LiveOf("commit") :
        /\ i < j
        /\ calls[i].call.key = calls[j].call.key
        /\ BucketTime(calls[i].call.now_ns) = BucketTime(calls[j].call.now_ns)
        /\ calls[i].call.val = 5
        /\ calls[j].call.val = 3
        /\ buckets[BucketTime(calls[i].call.now_ns)].latest_commit_offsets[calls[i].call.key] = 5

\* the track_kafka_produce or track_kafka_commit calls that returned for
\* key k in bucket bt since the bucket was created
OffsetsOf(op, bt, k) ==
    {i \in LiveOf(op) : calls[i].call.key = k /\ BucketTime(calls[i].call.now_ns) = bt}

\* v is the greatest of the offsets of the calls S
IsMaxOf(v, S) ==
    /\ \E i \in S : calls[i].call.val = v
    /\ \A i \in S : calls[i].call.val <= v

\* C35: for every key and bucket, the stored produce or commit offset is the
\* maximum of the offsets recorded for that key in that bucket since the
\* bucket was created, for every offset value, negative ones included
StoredOffsetIsMax ==
    \A bt \in DOMAIN buckets :
        /\ \A k \in DOMAIN buckets[bt].latest_produce_offsets :
               OffsetsOf("produce", bt, k) # {} =>
                   IsMaxOf(buckets[bt].latest_produce_offsets[k], OffsetsOf("produce", bt, k))
        /\ \A k \in DOMAIN buckets[bt].latest_commit_offsets :
               OffsetsOf("commit", bt, k) # {} =>
                   IsMaxOf(buckets[bt].latest_commit_offsets[k], OffsetsOf("commit", bt, k))

\* the bucket bt holds what the call c recorded
HoldsRecord(bt, c) ==
    /\ bt \in DOMAIN buckets
    /\ c.id \in buckets[bt].ids
    /\ c.op = "checkpoint" => AggrKey(c) \in DOMAIN buckets[bt].pathway_stats
    /\ c.op = "produce" => c.key \in DOMAIN buckets[bt].latest_produce_offsets
    /\ c.op = "commit" => c.key \in DOMAIN buckets[bt].latest_commit_offsets

\* the keys of the map are window starts, and a record is in the bucket of
\* the window its time falls into, and in no other
RecordsInTheirWindow ==
    /\ \A bt \in DOMAIN buckets : bt % BucketSizeNs = 0
    /\ \A i \in Live :
           \E bt \in DOMAIN buckets :
               /\ bt <= calls[i].call.now_ns
               /\ calls[i].call.now_ns < bt + BucketSizeNs
               /\ HoldsRecord(bt, calls[i].call)
               /\ \A other \in (DOMAIN buckets) \ {bt} : calls[i].call.id \notin buckets[other].ids

\* a drain serializes each bucket of the map under its key
SerializedUnderKey ==
    \A k \in Tickers :
        snapshot'[k] # snapshot[k] /\ snapshot'[k] # {} =>
            /\ {sb.Start : sb \in snapshot'[k]} = DOMAIN buckets
            /\ \A sb \in snapshot'[k] :
                   /\ sb.Duration = BucketSizeNs
                   /\ sb.ids = buckets[sb.Start].ids
                   /\ Cardinality(sb.Stats) = Cardinality(DOMAIN buckets[sb.Start].pathway_stats)

\* C36: every key of the bucket map is a multiple of bucket_size_ns, every
\* record with timestamp now_ns is in the bucket with
\* start <= now_ns < start + bucket_size_ns, and every serialized bucket
\* carries Start equal to its map key and Duration equal to bucket_size_ns
BucketKeysAligned == []RecordsInTheirWindow /\ [][SerializedUnderKey]_vars

\* one drain serialized two buckets, one of them holding a record whose
\* time is not the start of its window
TwoWindowsSerialized ==
    /\ \E a \in snapshot["periodic"], b \in snapshot["periodic"] : a.Start = 0 /\ b.Start = 2
    /\ \E i \in 1 .. Len(calls) : calls[i].call.now_ns = 3 /\ i \in drained

\* the Stats entries of the serialized bucket sb that are for the key
StatsFor(sb, key) ==
    {st \in sb.Stats : Join(st.EdgeTags) = key[1] /\ st.Hash = key[2] /\ st.ParentHash = key[3]}

\* the Backlogs entries of sb with the tags
BacklogsWith(sb, tags) == {bl \in sb.Backlogs : bl.Tags = tags}

\* sb is what the bucket b serializes to: its Stats and its Backlogs
SerializedEntries(sb, b) ==
    /\ Cardinality(sb.Stats) = Cardinality(DOMAIN b.pathway_stats)
    /\ \A key \in DOMAIN b.pathway_stats : Cardinality(StatsFor(sb, key)) = 1
    /\ Cardinality(sb.Backlogs) =
           Cardinality(DOMAIN b.latest_commit_offsets)
               + Cardinality(DOMAIN b.latest_produce_offsets)
    /\ \A ck \in DOMAIN b.latest_commit_offsets :
           BacklogsWith(sb, <<"type:kafka_commit", <<"consumer_group:", ck[1]>>,
                              <<"topic:", ck[2]>>, <<"partition:", DecimalStr(ck[3])>> >>)
               = {[Tags |-> <<"type:kafka_commit", <<"consumer_group:", ck[1]>>,
                              <<"topic:", ck[2]>>, <<"partition:", DecimalStr(ck[3])>> >>,
                   Value |-> b.latest_commit_offsets[ck]]}
    /\ \A pk \in DOMAIN b.latest_produce_offsets :
           BacklogsWith(sb, <<"type:kafka_produce", <<"topic:", pk[1]>>,
                              <<"partition:", DecimalStr(pk[2])>> >>)
               = {[Tags |-> <<"type:kafka_produce", <<"topic:", pk[1]>>,
                              <<"partition:", DecimalStr(pk[2])>> >>,
                   Value |-> b.latest_produce_offsets[pk]]}

\* C38: a serialized bucket holds one Stats entry per aggregation key of the
\* bucket and one Backlogs entry per commit key and per produce key: a commit
\* entry with tags [type:kafka_commit, consumer_group:<g>, topic:<t>,
\* partition:<p>], a produce entry with tags [type:kafka_produce, topic:<t>,
\* partition:<p>], Value being the offset stored for the key
OneEntryPerKey ==
    [][\A k \in Tickers :
          snapshot'[k] # snapshot[k] /\ snapshot'[k] # {} =>
              \A sb \in snapshot'[k] :
                  /\ sb.Start \in DOMAIN buckets
                  /\ SerializedEntries(sb, buckets[sb.Start])]_vars

\* a drained bucket held a commit offset and a produce offset
CommitAndProduceSerialized ==
    \E sb \in snapshot["periodic"] :
        /\ Cardinality(sb.Backlogs) = 2
        /\ \E a \in sb.Backlogs, b \in sb.Backlogs :
               /\ a.Tags[1] = "type:kafka_commit" /\ a.Value = 5
               /\ b.Tags[1] = "type:kafka_produce" /\ b.Value = 3

\* the on_checkpoint_creation calls whose samples the serialized bucket sb holds
CheckpointsIn(sb) ==
    {i \in 1 .. Len(calls) : calls[i].call.op = "checkpoint" /\ calls[i].call.id \in sb.ids}

\* C39: the EdgeTags of every serialized Stats entry are the sorted tag list
\* given to the checkpoint that created the entry, whatever the tags are,
\* a tag that contains a comma included
EdgeTagsAsGiven ==
    \A k \in Tickers :
        \A sb \in snapshot[k] :
            /\ \A i \in CheckpointsIn(sb) :
                   \E st \in sb.Stats :
                       /\ st.EdgeTags = calls[i].call.tags
                       /\ st.Hash = calls[i].call.hash
                       /\ st.ParentHash = calls[i].call.parent
            /\ \A st \in sb.Stats :
                   \E i \in CheckpointsIn(sb) : st.EdgeTags = calls[i].call.tags

(***************************************************************************)
(* Properties of the current context of each thread                        *)
(***************************************************************************)
\* the calls before the i-th that were made on the same thread
OwnBefore(i) == {j \in 1 .. i - 1 : trail[j].thread = trail[i].thread}

\* what thread t's own first n calls left as its current context
RECURSIVE OwnContext(_, _)
OwnContext(t, n) ==
    IF n = 0 THEN Unset
    ELSE IF trail[n].thread = t THEN trail[n].after
    ELSE OwnContext(t, n - 1)

\* the i-th call is a set_checkpoint on a thread that decoded no pathway
\* and set no checkpoint before
FirstOnThread(i) ==
    /\ trail[i].op = "set_checkpoint"
    /\ \A j \in OwnBefore(i) : trail[j].op # "set_checkpoint" /\ ~trail[j].after.set

\* C25: the current context is per thread: a set_checkpoint or decode_pathway on
\* one thread finds what that thread's own calls left and leaves the current
\* context of every other thread as it was, and the first set_checkpoint on a
\* thread that decoded no pathway starts from a new pathway with hash 0
CurrentContextPerThread ==
    /\ \A t \in Recorders : current_context[t] = OwnContext(t, Len(trail))
    /\ \A i \in 1 .. Len(trail) :
        /\ trail[i].seen = OwnContext(trail[i].thread, i - 1)
        /\ FirstOnThread(i) =>
            /\ trail[i].start.hash = 0
            /\ trail[i].call.parent = 0

\* a first set_checkpoint on one thread, after the other decoded a pathway
\* with a hash and set a checkpoint on it
FreshStartBesideDecoded ==
    /\ Len(trail) = 3
    /\ trail[1].thread = "r1" /\ trail[1].op = "decode_pathway"
    /\ trail[1].after.set /\ trail[1].after.value.hash # 0
    /\ trail[2].thread = "r1" /\ trail[2].op = "set_checkpoint"
    /\ trail[3].thread = "r2" /\ FirstOnThread(3)
    /\ current_context["r1"] = trail[2].after
    /\ current_context["r2"] # current_context["r1"]

\* the last call before the i-th that was made on the same thread
OwnLast(i) == CHOOSE j \in OwnBefore(i) : \A k \in OwnBefore(i) : k <= j

\* C31: every decode resets the calling thread's current context: when a decode
\* returned a context c, a fresh pathway for a missing or malformed input
\* included, the next set_checkpoint on that thread works on c
DecodeResetsContext ==
    \A i \in 1 .. Len(trail) :
        (/\ trail[i].op = "set_checkpoint"
         /\ OwnBefore(i) # {}
         /\ trail[OwnLast(i)].op \in {"decode_pathway", "decode_pathway_b64", "codec_decode"})
            => trail[i].start = trail[OwnLast(i)].start

(***************************************************************************)
(* Properties of set_checkpoint, over the checkpoints set on one context   *)
(***************************************************************************)
HasTag(e, t) == \E i \in 1 .. Len(e.tags) : e.tags[i] = t

IsOut(e) == HasTag(e, TagDirectionOut) /\ ~HasTag(e, TagDirectionIn)

IsIn(e) == HasTag(e, TagDirectionIn) /\ ~HasTag(e, TagDirectionOut)

NoOverride(e) == e.edge_override = 0 /\ e.pathway_override = 0

\* a context no checkpoint was set on and that was not decoded from a header
FreshCtx(c) ==
    /\ c.hash = 0
    /\ c.previous_direction = << >>
    /\ c.closest_opposite_direction_hash = 0

ProduceLoop ==
    /\ Len(trail) >= 2
    /\ FreshCtx(trail[1].before)
    /\ IsOut(trail[1])
    /\ IsOut(trail[2])
    /\ NoOverride(trail[2])

\* C12: on a fresh context, a second direction:out checkpoint that follows a
\* first direction:out checkpoint (set_checkpoint(tags, now2), no override)
\* reports parent hash 0, sets pathway_start_sec to now2 and records edge
\* latency 0 and pathway latency 0.
ProduceLoopRestarts ==
    ProduceLoop =>
        /\ trail[2].call.parent = 0
        /\ trail[2].after.pathway_start_sec = trail[2].now
        /\ trail[2].call.edge = 0
        /\ trail[2].call.full = 0

\* two produces at different times, the first one with a hash of its own
SecondProduceLater ==
    /\ ProduceLoop
    /\ trail[1].call.hash # 0
    /\ trail[2].now > trail[1].now
    /\ trail[2].now > trail[1].before.pathway_start_sec
    /\ trail[2].call.parent = 0

\* the first n checkpoints alternate between direction:out and direction:in,
\* none of them overriding the pathway start
Alternates(n) ==
    \A i \in 1 .. n :
        /\ IsOut(trail[i]) \/ IsIn(trail[i])
        /\ trail[i].pathway_override = 0
        /\ i > 1 => (IsOut(trail[i]) <=> IsIn(trail[i - 1]))

\* C13: while the directions of the checkpoints set on a context alternate,
\* every checkpoint's parent hash is the hash the preceding checkpoint
\* produced (the hash the context was constructed with for the first one)
\* and pathway_start_sec stays what it was at construction.
AlternationChainsParents ==
    \A n \in 1 .. Len(trail) :
        Alternates(n) =>
            /\ trail[n].call.parent =
                   IF n = 1 THEN trail[1].before.hash ELSE trail[n - 1].call.hash
            /\ trail[n].after.pathway_start_sec = trail[1].before.pathway_start_sec

\* out, in, out on a decoded context: three different hashes chained
OutInOutChained ==
    /\ Len(trail) = 3
    /\ Alternates(3)
    /\ IsOut(trail[1])
    /\ trail[1].before.hash # 0
    /\ trail[1].call.parent = trail[1].before.hash
    /\ trail[2].call.parent = trail[1].call.hash
    /\ trail[3].call.parent = trail[2].call.hash
    /\ trail[3].call.hash # trail[1].call.hash
    /\ trail[2].call.hash # trail[1].call.hash

\* the tags in the order p gives them
Permuted(tags, p) == [i \in 1 .. Len(tags) |-> tags[p[i]]]

\* the call set_checkpoint reports when checkpoint e is given the tags as ts
Recomputed(e, ts) ==
    CtxSetCheckpoint(e.before, ts, e.now, e.edge_override, e.pathway_override,
                     e.call.val).call

\* C14: set_checkpoint given any permutation of the tags of the checkpoint
\* just set, on the same context (same service, env and parent hash),
\* computes the same hash and the same aggregation key, and computing it
\* again with the same tags gives the same hash.
HashOrderIndependent ==
    trail # << >> =>
        \A p \in Permutations(1 .. Len(Last(trail).tags)) :
            LET again == Recomputed(Last(trail), Permuted(Last(trail).tags, p))
            IN  /\ again.hash = Last(trail).call.hash
                /\ AggrKey(again) = AggrKey(Last(trail).call)
                /\ again.parent = Last(trail).call.parent

\* a checkpoint whose three tags were not given in sorted order
UnsortedTagsHashed ==
    \E i \in 1 .. Len(trail) :
        /\ Len(trail[i].tags) = 3
        /\ trail[i].tags # trail[i].call.tags
        /\ trail[i].call.hash # 0
        /\ trail[i].call.hash # trail[i].call.parent

\* C18: the edge latency and the pathway latency of every checkpoint reported
\* to the aggregator are >= 0, whatever the context and now are, and after
\* the checkpoint current_edge_start_sec is that checkpoint's now.
LatenciesNonNegative ==
    \A i \in 1 .. Len(trail) :
        /\ trail[i].call.edge >= 0
        /\ trail[i].call.full >= 0
        /\ trail[i].after.current_edge_start_sec = trail[i].now

\* a checkpoint whose now is earlier than both start times of its context
ClockWentBack ==
    \E i \in 1 .. Len(trail) :
        /\ NoOverride(trail[i])
        /\ IsIn(trail[i])
        /\ i > 1 /\ IsOut(trail[i - 1])
        /\ trail[i].now < trail[i].before.current_edge_start_sec
        /\ trail[i].now < trail[i].before.pathway_start_sec
        /\ trail[i].call.edge = 0
        /\ trail[i].call.full = 0

\* the entry of key in the bucket starting at bt, as a defaultdict gives it
StatsAt(bkts, bt, key) ==
    IF bt \in DOMAIN bkts /\ key \in DOMAIN bkts[bt].pathway_stats
    THEN bkts[bt].pathway_stats[key]
    ELSE NewPathwayStats

Entries(bkts) ==
    UNION { { <<bt, key>> : key \in DOMAIN bkts[bt].pathway_stats } : bt \in DOMAIN bkts }

\* the checkpoint has the direction of the one before it on its context
SameDirection(e) ==
    \/ IsOut(e) /\ e.before.previous_direction = TagDirectionOut
    \/ IsIn(e) /\ e.before.previous_direction = TagDirectionIn

\* what the checkpoint e should have added to, and with what
Reported(e) ==
    [bt |-> (e.call.now_ns \div BucketSizeNs) * BucketSizeNs,
     key |-> <<Join(e.call.tags), e.after.hash,
               IF SameDirection(e) THEN e.before.closest_opposite_direction_hash
               ELSE e.before.hash>>]

\* C26: a DataStreamsCtx.set_checkpoint(tags, now) call adds one sample to
\* one aggregation entry, the one with key (sorted tags joined by ",",
\* new hash, parent hash) in the bucket whose window contains now, the
\* parent hash being the context's hash after the loop-detection step and
\* the new hash becoming the context's hash; every other entry, every
\* offset and every other bucket is as before.
OneSampleOneEntry ==
    [][trail' # trail =>
          LET e == Last(trail')
              at == Reported(e)
              old == StatsAt(buckets, at.bt, at.key)
              new == StatsAt(buckets', at.bt, at.key)
          IN  /\ <<at.bt, at.key>> \in Entries(buckets')
              /\ at.key = <<Join(e.call.tags), e.call.hash, e.call.parent>>
              /\ new.payload_size.count = old.payload_size.count + 1
              /\ new.payload_size.sum = old.payload_size.sum + e.call.val
              /\ new.edge_latency = SketchAdd(old.edge_latency, e.call.edge)
              /\ new.full_pathway_latency =
                     SketchAdd(old.full_pathway_latency, e.call.full)
              /\ Entries(buckets') = Entries(buckets) \cup {<<at.bt, at.key>>}
              /\ DOMAIN buckets' = DOMAIN buckets \cup {at.bt}
              /\ \A x \in Entries(buckets) \ {<<at.bt, at.key>>} :
                     StatsAt(buckets', x[1], x[2]) = StatsAt(buckets, x[1], x[2])
              /\ \A bt \in DOMAIN buckets :
                     /\ buckets'[bt].latest_produce_offsets =
                            buckets[bt].latest_produce_offsets
                     /\ buckets'[bt].latest_commit_offsets =
                            buckets[bt].latest_commit_offsets]_vars

\* a third checkpoint added a second sample to the entry of the second one,
\* beside the entry of the first
SecondSampleInEntry ==
    /\ Len(trail) = 3
    /\ Cardinality(Entries(buckets)) = 2
    /\ StatsAt(buckets, Reported(trail[3]).bt, Reported(trail[3]).key).payload_size.count = 2
    /\ Reported(trail[3]) = Reported(trail[2])
    /\ Reported(trail[3]) # Reported(trail[1])

\* the direction of the checkpoint e
DirectionOf(e) == Direction(Sorted(e.tags))

\* the checkpoint e goes the way the one before it on the context went
Repeats(e) == DirectionOf(e) = e.before.previous_direction

\* C32: in a run of consecutive checkpoints with the same direction every
\* checkpoint reports the same parent hash, the hash the context had when the
\* direction last changed; closest_opposite_direction_hash and
\* closest_opposite_direction_edge_start change only at a checkpoint whose
\* direction differs from previous_direction; a checkpoint repeated with the
\* same tags yields the same hash and the same aggregation key
SameDirectionSameParent ==
    \A i \in 1 .. Len(trail) :
        /\ Repeats(trail[i]) =>
            /\ trail[i].after.closest_opposite_direction_hash =
                   trail[i].before.closest_opposite_direction_hash
            /\ trail[i].after.closest_opposite_direction_edge_start =
                   trail[i].before.closest_opposite_direction_edge_start
            /\ trail[i].call.parent = trail[i].before.closest_opposite_direction_hash
        /\ ~Repeats(trail[i]) =>
            /\ trail[i].call.parent = trail[i].before.hash
            /\ trail[i].after.closest_opposite_direction_hash = trail[i].before.hash
        /\ (i > 1 /\ DirectionOf(trail[i]) = DirectionOf(trail[i - 1])) =>
            trail[i].call.parent = trail[i - 1].call.parent
        /\ (i > 1 /\ Sorted(trail[i].tags) = Sorted(trail[i - 1].tags)) =>
            /\ trail[i].call.hash = trail[i - 1].call.hash
            /\ AggrKey(trail[i].call) = AggrKey(trail[i - 1].call)

\* three checkpoints going out on a context decoded with a hash: the second
\* and the third report the decoded hash as their parent, as the first did
ThreeProducesOneParent ==
    /\ Len(trail) = 3
    /\ \A i \in 1 .. 3 : IsOut(trail[i])
    /\ trail[1].before.hash # 0
    /\ trail[3].call.parent = trail[1].before.hash
    /\ trail[2].after.hash # trail[1].before.hash
    /\ trail[3].call.hash = trail[2].call.hash

\* the first checkpoint on a context decoded with a hash, its tags naming
\* a direction, no override given
FirstOnDecoded ==
    /\ Len(trail) >= 1
    /\ trail[1].before = DecodedCtx
    /\ trail[1].before.hash # 0
    /\ IsOut(trail[1]) \/ IsIn(trail[1])
    /\ NoOverride(trail[1])

\* C33: on a context decoded with hash h # 0, the first set_checkpoint whose
\* tags name a direction reports parent hash h, measures the edge latency from
\* the decoded current_edge_start_sec and the pathway latency from the decoded
\* pathway_start_sec, and leaves pathway_start_sec as decoded
DecodedHashIsFirstParent ==
    FirstOnDecoded =>
        /\ trail[1].call.parent = trail[1].before.hash
        /\ trail[1].call.edge =
               IF trail[1].now >= trail[1].before.current_edge_start_sec
               THEN trail[1].now - trail[1].before.current_edge_start_sec ELSE 0
        /\ trail[1].call.full =
               IF trail[1].now >= trail[1].before.pathway_start_sec
               THEN trail[1].now - trail[1].before.pathway_start_sec ELSE 0
        /\ trail[1].after.pathway_start_sec = trail[1].before.pathway_start_sec

\* a consume on the decoded context, later than both of its start times
ConsumeOnDecoded ==
    /\ FirstOnDecoded
    /\ IsIn(trail[1])
    /\ trail[1].call.edge > 0
    /\ trail[1].call.full > trail[1].call.edge

\* no tag of e starts with "direction:"
NoDirectionTag(e) == \A i \in 1 .. Len(e.tags) : ~StartsWith(e.tags[i], DirectionPrefix)

\* the first checkpoint on a context decoded with a hash, its tags naming
\* no direction, no override given
UndirectedOnDecoded ==
    /\ Len(trail) >= 1
    /\ trail[1].before = DecodedCtx
    /\ trail[1].before.hash # 0
    /\ NoDirectionTag(trail[1])
    /\ NoOverride(trail[1])

\* C34: a checkpoint whose tags hold no direction: tag has the direction "";
\* on a context whose previous_direction is still "" it is handled as a
\* repeat, so on a context decoded with hash h # 0 it reports parent hash 0
\* and resets pathway_start_sec and current_edge_start_sec to now
UndirectedDiscardsHash ==
    UndirectedOnDecoded =>
        /\ DirectionOf(trail[1]) = << >>
        /\ trail[1].before.previous_direction = << >>
        /\ trail[1].call.parent = 0
        /\ trail[1].after.pathway_start_sec = trail[1].now
        /\ trail[1].after.current_edge_start_sec = trail[1].now
        /\ trail[1].call.edge = 0
        /\ trail[1].call.full = 0

\* a checkpoint without direction moved the start of the decoded pathway
DecodedPathwayRestarted ==
    /\ UndirectedOnDecoded
    /\ trail[1].after.pathway_start_sec # trail[1].before.pathway_start_sec
    /\ trail[1].now > trail[1].before.current_edge_start_sec

\* the byte string the hash of the checkpoint e is to be taken of
HashInput(e) ==
    PackLE(Fnv1(Utf8(Service) \o Utf8(Env) \o TagBytes(e.call.tags)), HashBytes)
        \o PackLE(e.call.parent, HashBytes)

\* C37: the new hash of a checkpoint is
\* fnv1_64(le_bytes64(fnv1_64(utf8(service) + utf8(env) + the utf8 sorted tags))
\* + le_bytes64(parentHash)): it depends on nothing but service, env, the
\* sorted tags and the parent hash, and checkpoints with different parent
\* hashes are hashed from different byte strings; stated of the checkpoint
\* set last, against every earlier one
HashOfTagsAndParent ==
    trail # << >> =>
        LET e == Last(trail)
        IN  /\ e.call.tags = Sorted(e.tags)
            /\ e.call.hash = Fnv1(HashInput(e))
            /\ e.after.hash = e.call.hash
            /\ \A j \in 1 .. Len(trail) - 1 :
                /\ (e.call.tags = trail[j].call.tags /\ e.call.parent = trail[j].call.parent)
                       => e.call.hash = trail[j].call.hash
                /\ e.call.parent # trail[j].call.parent
                       => HashInput(e) # HashInput(trail[j])

\* two checkpoints with the same tags and parent at different times and
\* with different overrides, and a third one with another parent
SameHashAtAnotherTime ==
    /\ Len(trail) = 3
    /\ trail[1].call.tags = trail[2].call.tags
    /\ trail[1].call.parent = trail[2].call.parent
    /\ trail[1].call.parent # 0
    /\ trail[1].now # trail[2].now
    /\ trail[1].edge_override # trail[2].edge_override
    /\ trail[3].call.parent # trail[1].call.parent
    /\ trail[3].call.hash # trail[1].call.hash

(***************************************************************************)
(* Properties of the codec                                                 *)
(***************************************************************************)
DecodeOps == {"decode_pathway", "decode_pathway_b64", "codec_decode"}

BothKeys == {PROPAGATION_KEY_BASE_64, PROPAGATION_KEY}

\* a time cut to whole milliseconds
TruncMs(t) == t - (t % SubMs)

SameToMs(c, d) ==
    /\ d.hash = c.hash
    /\ d.pathway_start_sec = TruncMs(c.pathway_start_sec)
    /\ d.current_edge_start_sec = TruncMs(c.current_edge_start_sec)

Fresh(r) == r.raised = "" /\ r.ctx = NewPathway(r.now)

\* C6: decoding never raises to the caller: decode_pathway, decode_pathway_b64
\* and DsmPathwayCodec.decode return, and what decode_pathway returns for a
\* value it cannot parse (too short, a varint cut off, not bytes) is a fresh
\* pathway, hash 0 and both start times now.  The code lets the errors of
\* struct.unpack and base64.b64decode through.
DecodeNeverRaises ==
    /\ result.op \in DecodeOps => result.raised = ""
    /\ (result.op = "decode_pathway" /\ ParsePathway(wire).exc # "") => Fresh(result)

\* C7: round trip: for a context with hash # 0, decode_pathway(ctx.encode())
\* and decode_pathway_b64(ctx.encode_b64()) return a context with the same hash
\* and with both start times those of ctx cut to whole milliseconds.
RoundTrip ==
    /\ (result.op = "decode_pathway" /\ ctx.hash # 0 /\ wire = PyBytes(CtxEncode(ctx)))
           => result.raised = "" /\ SameToMs(ctx, result.ctx)
    /\ (result.op = "decode_pathway_b64" /\ ctx.hash # 0 /\ wire = PyStr(CtxEncodeB64(ctx)))
           => result.raised = "" /\ SameToMs(ctx, result.ctx)

\* a context with a three-byte hash, a start time that is not a whole number
\* of milliseconds and one that takes two varint bytes came back through
\* base64 with the fraction gone
RoundTripLosesFraction ==
    /\ result.op = "decode_pathway_b64"
    /\ wire = PyStr(CtxEncodeB64(ctx))
    /\ ctx.hash = 70000
    /\ ctx.pathway_start_sec = 401
    /\ result.raised = ""
    /\ result.ctx.hash = 70000
    /\ result.ctx.pathway_start_sec = 400

\* C8: DsmPathwayCodec.encode with a context of hash 0 leaves the carrier as
\* it was: no key added, no entry changed.
ZeroHashNoOp ==
    (result.op = "codec_encode" /\ result.ctx.hash = 0) => carrier = result.before

\* a context of hash 0 was encoded into a carrier that holds other headers
ZeroHashEncoded ==
    /\ result.op = "codec_encode"
    /\ result.ctx.hash = 0
    /\ result.ctx # NoCtx
    /\ OtherKey \in DOMAIN result.before
    /\ PROPAGATION_KEY_BASE_64 \notin DOMAIN carrier

\* C9: DsmPathwayCodec.encode with a context of hash # 0 sets the key
\* dd-pathway-ctx-base64 to the base64 text of the context's encoding and
\* leaves every other entry, a legacy dd-pathway-ctx entry included, as it
\* was; the legacy key is never written.
EncodeWritesBase64Only ==
    (result.op = "codec_encode" /\ result.ctx.hash # 0) =>
        /\ DOMAIN carrier = DOMAIN result.before \cup {PROPAGATION_KEY_BASE_64}
        /\ carrier[PROPAGATION_KEY_BASE_64].type = "str"
        /\ B64Decode(carrier[PROPAGATION_KEY_BASE_64].data)
               = [ok |-> TRUE, bytes |-> CtxEncode(result.ctx)]
        /\ \A k \in DOMAIN result.before \ {PROPAGATION_KEY_BASE_64} :
               carrier[k] = result.before[k]

\* a context was encoded into a carrier that held a legacy entry, another
\* header and an older base64 entry
EncodedBesideLegacy ==
    /\ result.op = "codec_encode"
    /\ result.ctx.hash # 0
    /\ BothKeys \cup {OtherKey} \subseteq DOMAIN result.before
    /\ carrier[PROPAGATION_KEY_BASE_64] # result.before[PROPAGATION_KEY_BASE_64]

\* what decode returns does not depend on the legacy entry when there is a
\* base64 entry
LegacyNeverConsulted ==
    (result.op = "codec_decode" /\ BothKeys \subseteq DOMAIN carrier) =>
        LET r == CodecDecode(Remove(carrier, {PROPAGATION_KEY}), result.now, Unset)
        IN  result.raised = r.raised /\ result.ctx = r.ctx

\* C10: with both keys in the carrier, DsmPathwayCodec.decode returns the
\* context decoded from the base64 entry, a fresh pathway when that entry is
\* empty or is not a valid pathway, whatever the legacy entry holds.  The code
\* raises on a base64 entry that is not valid base64 or decodes to less than
\* eight bytes.
Base64KeyPreferred ==
    (result.op = "codec_decode" /\ BothKeys \subseteq DOMAIN carrier) =>
        LET v == carrier[PROPAGATION_KEY_BASE_64]
            p == IF v.type = "str" /\ B64Decode(Utf8(v.data)).ok
                 THEN ParsePathway(PyBytes(B64Decode(Utf8(v.data)).bytes))
                 ELSE Raises("invalid")
        IN  /\ result.raised = ""
            /\ result.ctx = IF p.exc = "" THEN p.ctx ELSE NewPathway(result.now)

OnlyLegacy ==
    PROPAGATION_KEY \in DOMAIN carrier /\ PROPAGATION_KEY_BASE_64 \notin DOMAIN carrier

\* C11: with only the legacy key in the carrier, DsmPathwayCodec.decode returns
\* the context its value decodes to as raw binary; if it does not decode, the
\* context its base64 decoding decodes to; and a fresh pathway if that fails
\* too.  The code raises on a raw value shorter than eight bytes, and gives a
\* fresh pathway for a raw value that decodes to a context of hash 0.
LegacyFallback ==
    (result.op = "codec_decode" /\ OnlyLegacy) =>
        LET v == carrier[PROPAGATION_KEY]
            raw == ParsePathway(v)
            text == IF v.type = "str" THEN Utf8(v.data) ELSE v.data
            second == IF v.type \in {"str", "bytes"} /\ B64Decode(text).ok
                      THEN ParsePathway(PyBytes(B64Decode(text).bytes))
                      ELSE Raises("invalid")
        IN  /\ result.raised = ""
            /\ result.ctx = IF raw.exc = "" THEN raw.ctx
                            ELSE IF second.exc = "" THEN second.ctx
                            ELSE NewPathway(result.now)

====
